---- MODULE Spec2Model ----
(***************************************************************************)
(* A model of comze's version reconciliation engine: the constraint        *)
(* parser and diff classifier of src/utils/version.ts, the PHP             *)
(* compatibility checker of src/utils/php.ts and the version selector of   *)
(* fetchPackage in src/fetcher.ts.                                         *)
(*                                                                         *)
(* A JavaScript string is a sequence of one-character strings, a number is *)
(* its canonical decimal digit sequence (so that semver's                  *)
(* MAX_SAFE_INTEGER limit is kept exactly), and a nullable or optional     *)
(* value is a sequence of length 0 (absent) or 1 (present).                *)
(***************************************************************************)
EXTENDS Integers, Sequences, FiniteSets, TLC

None == <<>>
Some(x) == <<x>>
IsSome(o) == Len(o) = 1
Get(o) == o[1]

----------------------------------------------------------------------------
(* JavaScript string primitives *)

UpperChars == <<"A","B","C","D","E","F","G","H","I","J","K","L","M",
                "N","O","P","Q","R","S","T","U","V","W","X","Y","Z">>
LowerChars == <<"a","b","c","d","e","f","g","h","i","j","k","l","m",
                "n","o","p","q","r","s","t","u","v","w","x","y","z">>
Digits == <<"0","1","2","3","4","5","6","7","8","9">>

IsDigit(c) == \E i \in 1..10 : Digits[i] = c
IsUpper(c) == \E i \in 1..26 : UpperChars[i] = c
IsLower(c) == \E i \in 1..26 : LowerChars[i] = c
\* \w of a JavaScript regular expression
\* \s of a JavaScript regular expression, over the characters of the model
SpaceChars == {" "}
IsSpace(c) == c \in SpaceChars

LowerChar(c) ==
    IF IsUpper(c) THEN LowerChars[CHOOSE i \in 1..26 : UpperChars[i] = c] ELSE c

toLowerCase(s) == [i \in 1..Len(s) |-> LowerChar(s[i])]

\* s.slice(n): the string from 0-based index n on
Slice(s, n) == IF n >= Len(s) THEN <<>> ELSE SubSeq(s, n + 1, Len(s))

\* the pattern p occurs in s at 1-based position i
MatchAt(s, p, i) ==
    /\ i >= 1
    /\ i + Len(p) - 1 <= Len(s)
    /\ \A k \in 1..Len(p) : s[i + k - 1] = p[k]

startsWith(s, p) == MatchAt(s, p, 1)
endsWith(s, p) == Len(p) <= Len(s) /\ MatchAt(s, p, Len(s) - Len(p) + 1)
includes(s, p) == \E i \in 1..(Len(s) + 1) : MatchAt(s, p, i)

\* 1-based position of the first occurrence of p in s, 0 when there is none
IndexOf(s, p) ==
    IF includes(s, p)
    THEN CHOOSE i \in 1..(Len(s) + 1) :
            MatchAt(s, p, i) /\ \A j \in 1..(i - 1) : ~MatchAt(s, p, j)
    ELSE 0

RECURSIVE TrimLeft(_)
TrimLeft(s) == IF s # <<>> /\ IsSpace(s[1]) THEN TrimLeft(Tail(s)) ELSE s

RECURSIVE TrimRight(_)
TrimRight(s) ==
    IF s # <<>> /\ IsSpace(s[Len(s)]) THEN TrimRight(SubSeq(s, 1, Len(s) - 1)) ELSE s

trim(s) == TrimLeft(TrimRight(s))

\* s.split(sep)[0]
SplitFirst(s, sep) ==
    IF includes(s, sep) THEN SubSeq(s, 1, IndexOf(s, sep) - 1) ELSE s

\* s.split(sep)[1] when s contains sep: the text between the first and the
\* second occurrence of sep
SplitSecond(s, sep) == SplitFirst(Slice(s, IndexOf(s, sep) - 1 + Len(sep)), sep)

\* the character classes of the regular expressions of the program
DigitChars == { Digits[i] : i \in 1..10 }
WordChars ==
    DigitChars \cup { UpperChars[i] : i \in 1..26 } \cup { LowerChars[i] : i \in 1..26 }
        \cup {"_"}

\* the length of the longest prefix of s whose characters are all in chars
RunLen(s, chars) ==
    CHOOSE n \in 0..Len(s) :
        /\ \A i \in 1..n : s[i] \in chars
        /\ (n = Len(s) \/ s[n + 1] \notin chars)

\* the length of the longest prefix of s with no character in chars
RunLenNot(s, chars) ==
    CHOOSE n \in 0..Len(s) :
        /\ \A i \in 1..n : s[i] \notin chars
        /\ (n = Len(s) \/ s[n + 1] \in chars)

\* s with every character in chars removed
RemoveChars(s, chars) == SelectSeq(s, LAMBDA c : c \notin chars)

----------------------------------------------------------------------------
(* JavaScript numbers, as canonical decimal digit sequences *)

DigitVal(c) == (CHOOSE i \in 1..10 : Digits[i] = c) - 1

\* the digits of a number as String() prints it: no leading zeros
RECURSIVE Canon(_)
Canon(ds) == IF Len(ds) > 1 /\ ds[1] = "0" THEN Canon(Tail(ds)) ELSE ds

\* parseInt(ds, 10) of a non-empty digit sequence
parseInt(ds) == Canon(ds)

\* a < b on numbers
NumLT(a, b) ==
    \/ Len(a) < Len(b)
    \/ /\ Len(a) = Len(b)
       /\ \E i \in 1..Len(a) :
            /\ DigitVal(a[i]) < DigitVal(b[i])
            /\ \A j \in 1..(i - 1) : a[j] = b[j]

NumGT(a, b) == NumLT(b, a)
NumLE(a, b) == ~NumLT(b, a)

\* n + 1
RECURSIVE NumInc(_)
NumInc(ds) ==
    IF ds = <<>> THEN <<"1">>
    ELSE IF ds[Len(ds)] = "9"
         THEN NumInc(SubSeq(ds, 1, Len(ds) - 1)) \o <<"0">>
         ELSE SubSeq(ds, 1, Len(ds) - 1) \o <<Digits[DigitVal(ds[Len(ds)]) + 2]>>

Zero == <<"0">>

----------------------------------------------------------------------------
(* The semver package, as far as the program uses it *)

\* Number.MAX_SAFE_INTEGER, 9007199254740991
MAX_SAFE_INTEGER ==
    <<"9","0","0","7","1","9","9","2","5","4","7","4","0","9","9","1">>

\* MAX_SAFE_COMPONENT_LENGTH of semver's coerce pattern
MAX_SAFE_COMPONENT_LENGTH == 16

\* a numeric identifier of semver's grammar: 0|[1-9]\d*
IsNumericId(ds) ==
    /\ ds # <<>>
    /\ \A i \in 1..Len(ds) : IsDigit(ds[i])
    /\ (Len(ds) > 1 => ds[1] # "0")


\* s.split('.')
RECURSIVE DotSplit(_)
DotSplit(s) ==
    IF \A i \in 1..Len(s) : s[i] # "." THEN <<s>>
    ELSE <<SubSeq(s, 1, RunLenNot(s, {"."}))>> \o DotSplit(Slice(s, RunLenNot(s, {"."}) + 1))

\* the version of the components <<M, m, p>> of a string "M.m.p": None where
\* the SemVer constructor throws a TypeError (not three numeric identifiers,
\* or one above MAX_SAFE_INTEGER)
SemVerOf(t) ==
    IF Len(t) = 3 /\ \A i \in 1..3 : IsNumericId(t[i]) /\ NumLE(t[i], MAX_SAFE_INTEGER)
    THEN Some([major |-> t[1], minor |-> t[2], patch |-> t[3]])
    ELSE None

\* new SemVer(version) for a version without prerelease or build part
SemVer(version) == SemVerOf(DotSplit(trim(version)))

ValidVersion(version) == IsSome(SemVer(version))

\* semver.major / minor / patch of a valid version
SemverMajor(version) == Get(SemVer(version)).major
SemverMinor(version) == Get(SemVer(version)).minor
SemverPatch(version) == Get(SemVer(version)).patch

\* SemVer.compare on two parsed versions: -1, 0, 1
CompareMain(x, y) ==
    IF x.major # y.major THEN (IF NumLT(x.major, y.major) THEN -1 ELSE 1)
    ELSE IF x.minor # y.minor THEN (IF NumLT(x.minor, y.minor) THEN -1 ELSE 1)
    ELSE IF x.patch # y.patch THEN (IF NumLT(x.patch, y.patch) THEN -1 ELSE 1)
    ELSE 0

\* semver.gte(a, b) and semver.lt(a, b) of two valid versions
SemverGte(a, b) == CompareMain(Get(SemVer(a)), Get(SemVer(b))) >= 0
SemverLt(a, b) == CompareMain(Get(SemVer(a)), Get(SemVer(b))) < 0

\* "M.m.p"
VersionString(major, minor, patch) == major \o <<".">> \o minor \o <<".">> \o patch

\* the rest of s from its first maximal digit run of at most 16 digits on,
\* looking from 1-based position i: where (^|[^\d])(\d{1,16}) of semver's
\* COERCE pattern matches; <<>> when it matches nowhere
RECURSIVE CoerceStart(_, _)
CoerceStart(s, i) ==
    IF i > Len(s) THEN <<>>
    ELSE IF ~IsDigit(s[i]) THEN CoerceStart(s, i + 1)
    ELSE IF RunLen(Slice(s, i - 1), DigitChars) <= MAX_SAFE_COMPONENT_LENGTH
    THEN Slice(s, i - 1)
    ELSE CoerceStart(s, i + RunLen(Slice(s, i - 1), DigitChars))

\* the captures of up to n groups (?:\.(\d{1,16}))? at the front of s
RECURSIVE CoerceGroups(_, _)
CoerceGroups(s, n) ==
    IF /\ n > 0 /\ s # <<>> /\ s[1] = "."
       /\ RunLen(Tail(s), DigitChars) \in 1..MAX_SAFE_COMPONENT_LENGTH
    THEN <<SubSeq(s, 2, RunLen(Tail(s), DigitChars) + 1)>>
         \o CoerceGroups(Slice(s, RunLen(Tail(s), DigitChars) + 1), n - 1)
    ELSE <<>>

\* semver.coerce(version).version, None where coerce returns null
coerce(version) ==
    LET Checked(v) == IF ValidVersion(v) THEN Some(v) ELSE None
        Build(major, groups) ==
            Checked(VersionString(major,
                                  IF Len(groups) >= 1 THEN groups[1] ELSE Zero,
                                  IF Len(groups) >= 2 THEN groups[2] ELSE Zero))
        Match(m) ==
            IF m = <<>> THEN None
            ELSE Build(SubSeq(m, 1, RunLen(m, DigitChars)),
                       CoerceGroups(Slice(m, RunLen(m, DigitChars)), 2))
    IN Match(CoerceStart(version, 1))

----------------------------------------------------------------------------
(* src/utils/version.ts *)

Str_as == <<" ","a","s"," ">>
Str_dev_ == <<"d","e","v","-">>
Str_dev == <<"-","d","e","v">>
Str_xdev == <<".","x","-","d","e","v">>
Str_alpha == <<"a","l","p","h","a">>
Str_beta == <<"b","e","t","a">>
Str_rc == <<"-","r","c">>
Str_atdev == <<"@","d","e","v">>
Str_atalpha == <<"@","a","l","p","h","a">>
Str_atbeta == <<"@","b","e","t","a">>
Str_atrc == <<"@","r","c">>
Str_atstable == <<"@","s","t","a","b","l","e">>
Str_hyphen == <<" ","-"," ">>

hasDevSuffix(version) ==
    LET Marked(lower) ==
            \/ includes(lower, Str_dev)
            \/ includes(lower, Str_alpha)
            \/ includes(lower, Str_beta)
            \/ includes(lower, Str_rc)
            \/ includes(lower, Str_atdev)
            \/ includes(lower, Str_atalpha)
            \/ includes(lower, Str_atbeta)
            \/ includes(lower, Str_atrc)
    IN Marked(toLowerCase(version))

\* .replace(/^v/i, '')
StripV(s) == IF s # <<>> /\ LowerChar(s[1]) = "v" THEN Tail(s) ELSE s

StabilityFlags == {Str_atdev, Str_atalpha, Str_atbeta, Str_atrc, Str_atstable}

\* .replace(/@(dev|alpha|beta|rc|stable)$/i, '')
StripStabilityFlag(s) ==
    LET Strip(lower) ==
            IF \E f \in StabilityFlags : endsWith(lower, f)
            THEN SubSeq(s, 1, Len(s) - Len(CHOOSE f \in StabilityFlags : endsWith(lower, f)))
            ELSE s
    IN Strip(toLowerCase(s))

normalizeVersionString(version) == StripStabilityFlag(StripV(trim(version)))

\* a character of the class [><!=]
OpChars == {">", "<", "!", "="}
IsOpChar(c) == c \in OpChars
\* the class [\w.]
WordOrDotChars == WordChars \cup {"."}

\* the length of the match of \d+(?:\.\d+)* at the front of s (0: no match)
RECURSIVE DottedLen(_)
DottedLen(s) ==
    LET More(a) ==
            IF a = 0 THEN 0
            ELSE IF Len(s) >= a + 2 /\ s[a + 1] = "." /\ IsDigit(s[a + 2])
            THEN a + 1 + DottedLen(Slice(s, a + 1))
            ELSE a
    IN More(RunLen(s, DigitChars))

\* the match of \d+(?:\.\d+)*(?:-[\w.]+)? at the front of s
VersionToken(s) ==
    LET Tagged(d, w) == SubSeq(s, 1, IF w >= 1 THEN d + 1 + w ELSE d)
        Dotted(d) ==
            Tagged(d, IF Len(s) > d /\ s[d + 1] = "-"
                      THEN RunLen(Slice(s, d + 1), WordOrDotChars) ELSE 0)
    IN Dotted(DottedLen(s))

\* group 2 of the first match of /([><!=]+)\s*(\d+(?:\.\d+)*(?:-[\w.]+)?)/ in s
\* from 1-based position i on; None when the pattern matches nowhere
RECURSIVE RangeVersionMatch(_, _)
RangeVersionMatch(s, i) ==
    LET AfterOps(ops, afterWs) ==
            IF afterWs # <<>> /\ IsDigit(afterWs[1])
            THEN Some(VersionToken(afterWs))
            ELSE RangeVersionMatch(s, i + ops)
        Ops(ops) == AfterOps(ops, TrimLeft(Slice(s, i - 1 + ops)))
    IN IF i > Len(s) THEN None
       ELSE IF ~IsOpChar(s[i]) THEN RangeVersionMatch(s, i + 1)
       ELSE Ops(RunLen(Slice(s, i - 1), OpChars))

\* the ParsedConstraint interface
ParsedConstraint(type, prefix, baseVersion, original, isDev) ==
    [type |-> type, prefix |-> prefix, baseVersion |-> baseVersion,
     original |-> original, isDev |-> isDev]

\* the string after .replace(/\.$/, '')
StripDot(s) == IF endsWith(s, <<".">>) THEN SubSeq(s, 1, Len(s) - 1) ELSE s

\* a parser that looks for the -dev and .x-dev suffixes after the caret, tilde,
\* wildcard and hyphen patterns
ParseSuffixLast(constraint) ==
    LET Caret(original, version) ==
            ParsedConstraint("caret", <<"^">>, normalizeVersionString(version), original,
                   hasDevSuffix(version))
        Tilde(original, version) ==
            ParsedConstraint("tilde", <<"~">>, normalizeVersionString(version), original,
                   hasDevSuffix(version))
        RangeOf(original, version) ==
            ParsedConstraint("range", SubSeq(original, 1, RunLen(original, OpChars)),
                   normalizeVersionString(version), original, hasDevSuffix(version))
        Range(original, versionMatch) ==
            RangeOf(original, IF IsSome(versionMatch) THEN Get(versionMatch)
                              ELSE RemoveChars(original, OpChars))
        Parse(original) ==
            IF includes(original, Str_as)
            THEN ParsedConstraint("dev", <<>>, trim(SplitSecond(original, Str_as)), original, TRUE)
            ELSE IF startsWith(original, Str_dev_)
            THEN ParsedConstraint("dev", Str_dev_, Slice(original, 4), original, TRUE)
            ELSE IF startsWith(original, <<"^">>) THEN Caret(original, Slice(original, 1))
            ELSE IF startsWith(original, <<"~">>) THEN Tilde(original, Slice(original, 1))
            ELSE IF includes(original, <<"*">>)
            THEN ParsedConstraint("wildcard", <<>>, StripDot(SplitFirst(original, <<"*">>)),
                        original, FALSE)
            ELSE IF includes(original, Str_hyphen)
            THEN ParsedConstraint("hyphen", <<>>,
                        normalizeVersionString(trim(SplitFirst(original, Str_hyphen))),
                        original, FALSE)
            ELSE IF endsWith(original, Str_dev) \/ endsWith(original, Str_xdev)
            THEN ParsedConstraint("dev", <<>>, original, original, TRUE)
            ELSE IF RunLen(original, OpChars) >= 1
            THEN Range(original, RangeVersionMatch(original, 1))
            ELSE ParsedConstraint("exact", <<>>, normalizeVersionString(original), original,
                        hasDevSuffix(original))
    IN Parse(trim(constraint))

\* lines 23-98
parseConstraint(constraint) ==
    LET Caret(original, version) ==
            ParsedConstraint("caret", <<"^">>, normalizeVersionString(version), original,
                   hasDevSuffix(version))
        Tilde(original, version) ==
            ParsedConstraint("tilde", <<"~">>, normalizeVersionString(version), original,
                   hasDevSuffix(version))
        RangeOf(original, version) ==
            ParsedConstraint("range", SubSeq(original, 1, RunLen(original, OpChars)),
                   normalizeVersionString(version), original, hasDevSuffix(version))
        Range(original, versionMatch) ==
            RangeOf(original, IF IsSome(versionMatch) THEN Get(versionMatch)
                              ELSE RemoveChars(original, OpChars))
        Parse(original) ==
            IF includes(original, Str_as)
            THEN ParsedConstraint("dev", <<>>, trim(SplitSecond(original, Str_as)), original, TRUE)
            ELSE IF startsWith(original, Str_dev_)
            THEN ParsedConstraint("dev", Str_dev_, Slice(original, 4), original, TRUE)
            ELSE IF endsWith(original, Str_dev) \/ endsWith(original, Str_xdev)
            THEN ParsedConstraint("dev", <<>>, original, original, TRUE)
            ELSE IF startsWith(original, <<"^">>) THEN Caret(original, Slice(original, 1))
            ELSE IF startsWith(original, <<"~">>) THEN Tilde(original, Slice(original, 1))
            ELSE IF includes(original, <<"*">>)
            THEN ParsedConstraint("wildcard", <<>>, StripDot(SplitFirst(original, <<"*">>)),
                        original, FALSE)
            ELSE IF includes(original, Str_hyphen)
            THEN ParsedConstraint("hyphen", <<>>,
                        normalizeVersionString(trim(SplitFirst(original, Str_hyphen))),
                        original, FALSE)
            ELSE IF RunLen(original, OpChars) >= 1
            THEN Range(original, RangeVersionMatch(original, 1))
            ELSE ParsedConstraint("exact", <<>>, normalizeVersionString(original), original,
                        hasDevSuffix(original))
    IN Parse(trim(constraint))

getVersionStability(version) ==
    LET Classify(lower) ==
            IF \/ startsWith(lower, Str_dev_) \/ endsWith(lower, Str_dev)
               \/ includes(lower, Str_atdev)
            THEN "dev"
            ELSE IF includes(lower, Str_alpha) \/ includes(lower, Str_atalpha) THEN "alpha"
            ELSE IF includes(lower, Str_beta) \/ includes(lower, Str_atbeta) THEN "beta"
            ELSE IF includes(lower, Str_rc) \/ includes(lower, Str_atrc) THEN "RC"
            ELSE "stable"
    IN Classify(toLowerCase(version))

\* normalizeVersion: Some(semver string), or None for null
normalizeVersion(version) ==
    LET Normalize(parsed) ==
            IF parsed.type = "dev" /\ ~includes(version, Str_as) THEN None
            ELSE coerce(parsed.baseVersion)
    IN Normalize(parseConstraint(version))

\* the comparisons of getDiffType on two parsed versions
DiffOf(current, latest) ==
    IF NumGT(latest.major, current.major) THEN "major"
    ELSE IF NumGT(latest.minor, current.minor) THEN "minor"
    ELSE IF NumGT(latest.patch, current.patch) THEN "patch"
    ELSE "null"

\* getDiffType: "major", "minor", "patch", or "null"
getDiffType(currentVersion, latestVersion) ==
    LET Diff(current, latest) ==
            IF ~IsSome(current) \/ ~IsSome(latest) THEN "null"
            ELSE DiffOf(Get(SemVer(Get(current))), Get(SemVer(Get(latest))))
    IN Diff(normalizeVersion(currentVersion), normalizeVersion(latestVersion))

\* originalConstraint.match(/^\d+\.\*$/)
IsMajorWildcard(s) ==
    /\ RunLen(s, DigitChars) >= 1
    /\ Slice(s, RunLen(s, DigitChars)) = <<".", "*">>

\* a formatter that writes every comparable constraint as a caret constraint
FormatAsCaret(originalConstraint, newVersion) ==
    LET Wildcard(coerced) ==
            IF IsSome(coerced)
            THEN IF IsMajorWildcard(originalConstraint)
                 THEN SemverMajor(Get(coerced)) \o <<".", "*">>
                 ELSE SemverMajor(Get(coerced)) \o <<".">> \o SemverMinor(Get(coerced))
                      \o <<".", "*">>
            ELSE originalConstraint
        Format(parsed, cleaned) ==
            IF parsed.type = "dev" THEN originalConstraint
            ELSE IF parsed.type = "wildcard" THEN Wildcard(coerce(cleaned))
            ELSE IF parsed.type = "hyphen"
            THEN trim(SplitFirst(originalConstraint, Str_hyphen)) \o Str_hyphen \o cleaned
            ELSE <<"^">> \o cleaned
    IN Format(parseConstraint(originalConstraint), StripV(newVersion))

\* a formatter that rewrites a dev constraint like an exact one
FormatDevToo(originalConstraint, newVersion) ==
    LET Wildcard(coerced) ==
            IF IsSome(coerced)
            THEN IF IsMajorWildcard(originalConstraint)
                 THEN SemverMajor(Get(coerced)) \o <<".", "*">>
                 ELSE SemverMajor(Get(coerced)) \o <<".">> \o SemverMinor(Get(coerced))
                      \o <<".", "*">>
            ELSE originalConstraint
        Format(parsed, cleaned) ==
            IF parsed.type = "wildcard" THEN Wildcard(coerce(cleaned))
            ELSE IF parsed.type = "hyphen"
            THEN trim(SplitFirst(originalConstraint, Str_hyphen)) \o Str_hyphen \o cleaned
            ELSE IF parsed.type = "range" THEN <<"^">> \o cleaned
            ELSE parsed.prefix \o cleaned
    IN Format(parseConstraint(originalConstraint), StripV(newVersion))

\* lines 230-261
formatNewVersion(originalConstraint, newVersion) ==
    LET Wildcard(coerced) ==
            IF IsSome(coerced)
            THEN IF IsMajorWildcard(originalConstraint)
                 THEN SemverMajor(Get(coerced)) \o <<".", "*">>
                 ELSE SemverMajor(Get(coerced)) \o <<".">> \o SemverMinor(Get(coerced))
                      \o <<".", "*">>
            ELSE originalConstraint
        Format(parsed, cleaned) ==
            IF parsed.type = "dev" THEN originalConstraint
            ELSE IF parsed.type = "wildcard" THEN Wildcard(coerce(cleaned))
            ELSE IF parsed.type = "hyphen"
            THEN trim(SplitFirst(originalConstraint, Str_hyphen)) \o Str_hyphen \o cleaned
            ELSE IF parsed.type = "range" THEN <<"^">> \o cleaned
            ELSE parsed.prefix \o cleaned
    IN Format(parseConstraint(originalConstraint), StripV(newVersion))

----------------------------------------------------------------------------
(* semver ranges: semver.validRange and semver.satisfies for the comparator  *)
(* sets the PHP checker passes to them: space-separated comparators, each an *)
(* optional operator (=, >, >=, <, <=, ^, ~, ~>) and a full or partial       *)
(* version (x, X and * stand for a missing component).  Hyphen ranges and    *)
(* prerelease tags are outside the model's inputs and parse as invalid.      *)

RangeOpChars == {"^", "~", ">", "<", "="}
IsX(c) == c \in {<<>>, <<"x">>, <<"X">>, <<"*">>}
\* the comparators of a range, each [op, ver], with the whitespace between an
\* operator and its version removed (COMPARATORTRIM, TILDETRIM, CARETTRIM)
RECURSIVE RangeTokens(_)
RangeTokens(range) ==
    LET Token(s, opLen, after) ==
            <<[op |-> SubSeq(s, 1, opLen), ver |-> SubSeq(after, 1, RunLenNot(after, SpaceChars))]>>
            \o RangeTokens(Slice(after, RunLenNot(after, SpaceChars)))
        Op(s, opLen) == Token(s, opLen, IF opLen > 0 THEN TrimLeft(Slice(s, opLen)) ELSE s)
        Tokens(s) == IF s = <<>> THEN <<>> ELSE Op(s, RunLen(s, RangeOpChars))
    IN Tokens(TrimLeft(range))

\* XRANGEPLAIN: v?xr(.xr(.xr)?)? with xr a numeric identifier, x, X or *.
\* Some(<<M, m, p>>) with <<>> for a missing component; None when ver is no
\* partial version
PartialVersion(ver) ==
    LET Partial(parts) ==
            IF /\ Len(parts) <= 3
               /\ \A i \in 1..Len(parts) :
                    IsNumericId(parts[i]) \/ parts[i] \in {<<"x">>, <<"X">>, <<"*">>}
            THEN Some([i \in 1..3 |-> IF i <= Len(parts) THEN parts[i] ELSE <<>>])
            ELSE None
    IN Partial(DotSplit(IF ver # <<>> /\ ver[1] = "v" THEN Tail(ver) ELSE ver))

Cmp(op, major, minor, patch) == [op |-> op, v |-> [major |-> major, minor |-> minor, patch |-> patch]]

\* replaceCaret
CaretComparators(M, m, p) ==
    IF IsX(M) THEN <<>>
    ELSE IF IsX(m) THEN <<Cmp(">=", M, Zero, Zero), Cmp("<", NumInc(M), Zero, Zero)>>
    ELSE IF IsX(p)
         THEN IF M = Zero
              THEN <<Cmp(">=", M, m, Zero), Cmp("<", M, NumInc(m), Zero)>>
              ELSE <<Cmp(">=", M, m, Zero), Cmp("<", NumInc(M), Zero, Zero)>>
    ELSE IF M = Zero
         THEN IF m = Zero
              THEN <<Cmp(">=", M, m, p), Cmp("<", M, m, NumInc(p))>>
              ELSE <<Cmp(">=", M, m, p), Cmp("<", M, NumInc(m), Zero)>>
         ELSE <<Cmp(">=", M, m, p), Cmp("<", NumInc(M), Zero, Zero)>>

\* replaceTilde
TildeComparators(M, m, p) ==
    IF IsX(M) THEN <<>>
    ELSE IF IsX(m) THEN <<Cmp(">=", M, Zero, Zero), Cmp("<", NumInc(M), Zero, Zero)>>
    ELSE IF IsX(p) THEN <<Cmp(">=", M, m, Zero), Cmp("<", M, NumInc(m), Zero)>>
    ELSE <<Cmp(">=", M, m, p), Cmp("<", M, NumInc(m), Zero)>>

\* replaceXRange, and the comparator of a full version
XRangeComparators(gtlt0, M, m0, p0) ==
    LET XRange(xM, xm, xp, gtlt, m) ==
            IF xM
            THEN IF gtlt = <<">">> \/ gtlt = <<"<">>
                 THEN <<Cmp("<", Zero, Zero, Zero)>> ELSE <<>>
            ELSE IF gtlt # <<>> /\ xp
            THEN IF gtlt = <<">">>
                 THEN IF xm THEN <<Cmp(">=", NumInc(M), Zero, Zero)>>
                      ELSE <<Cmp(">=", M, NumInc(m), Zero)>>
                 ELSE IF gtlt = <<"<", "=">>
                 THEN IF xm THEN <<Cmp("<", NumInc(M), Zero, Zero)>>
                      ELSE <<Cmp("<", M, NumInc(m), Zero)>>
                 ELSE IF gtlt = <<"<">> THEN <<Cmp("<", M, m, Zero)>>
                 ELSE <<Cmp(">=", M, m, Zero)>>
            ELSE IF xm THEN <<Cmp(">=", M, Zero, Zero), Cmp("<", NumInc(M), Zero, Zero)>>
            ELSE IF xp THEN <<Cmp(">=", M, m, Zero), Cmp("<", M, NumInc(m), Zero)>>
            ELSE IF gtlt = <<>> \/ gtlt = <<"=">> THEN <<Cmp("=", M, m, p0)>>
            ELSE IF gtlt = <<">">> THEN <<Cmp(">", M, m, p0)>>
            ELSE IF gtlt = <<">", "=">> THEN <<Cmp(">=", M, m, p0)>>
            ELSE IF gtlt = <<"<">> THEN <<Cmp("<", M, m, p0)>>
            ELSE <<Cmp("<=", M, m, p0)>>
        AnyX(xM, xm, xp) ==
            XRange(xM, xm, xp, IF gtlt0 = <<"=">> /\ xp THEN <<>> ELSE gtlt0,
                   IF xm THEN Zero ELSE m0)
    IN AnyX(IsX(M), IsX(M) \/ IsX(m0), IsX(M) \/ IsX(m0) \/ IsX(p0))

RangeOperators ==
    {<<>>, <<"=">>, <<">">>, <<">", "=">>, <<"<">>, <<"<", "=">>, <<"^">>, <<"~">>, <<"~", ">">>}

\* parseComparator of one token: Some(its comparators), None when the
\* Comparator constructor throws
TokenComparators(tok) ==
    LET Safe(c) == /\ NumLE(c.v.major, MAX_SAFE_INTEGER)
                   /\ NumLE(c.v.minor, MAX_SAFE_INTEGER)
                   /\ NumLE(c.v.patch, MAX_SAFE_INTEGER)
        Checked(comps) ==
            IF \A i \in 1..Len(comps) : Safe(comps[i]) THEN Some(comps) ELSE None
        Desugar(t) ==
            Checked(IF tok.op = <<"^">> THEN CaretComparators(t[1], t[2], t[3])
                    ELSE IF tok.op = <<"~">> \/ tok.op = <<"~", ">">>
                    THEN TildeComparators(t[1], t[2], t[3])
                    ELSE XRangeComparators(tok.op, t[1], t[2], t[3]))
        Partial(pv) ==
            IF IsSome(pv) /\ tok.op \in RangeOperators THEN Desugar(Get(pv)) ELSE None
    IN Partial(PartialVersion(tok.ver))

\* the comparators of every token of a range: None when one of them throws
RangeComparators(range) ==
    LET All(parsed) ==
            IF \A i \in 1..Len(parsed) : IsSome(parsed[i])
            THEN Some([i \in 1..Len(parsed) |-> Get(parsed[i])])
            ELSE None
        Each(toks) == All([i \in 1..Len(toks) |-> TokenComparators(toks[i])])
    IN Each(RangeTokens(range))

\* semver.validRange(range) is not null
validRange(range) == IsSome(RangeComparators(range))

\* Comparator.test on a version without prerelease tag
ComparatorTest(c, ver) ==
    LET Test(r) ==
            CASE c.op = "=" -> r = 0
              [] c.op = ">" -> r > 0
              [] c.op = ">=" -> r >= 0
              [] c.op = "<" -> r < 0
              [] c.op = "<=" -> r <= 0
    IN Test(CompareMain(ver, c.v))

\* semver.satisfies(version, range) for a valid release version and a valid range
satisfies(version, range) ==
    LET Test(ver, sets) ==
            \A i \in 1..Len(sets) : \A k \in 1..Len(sets[i]) : ComparatorTest(sets[i][k], ver)
    IN Test(Get(SemVer(version)), Get(RangeComparators(range)))

----------------------------------------------------------------------------
(* src/utils/php.ts *)

Str_star == <<"*">>
Str_or == <<"|", "|">>
Str_OR == <<" ", "|", "|", " ">>
Str_ext == <<"e","x","t","-">>
Str_requires == <<"r","e","q","u","i","r","e","s"," ","p","h","p"," ">>

\* .replace(/\|\|/g, M).replace(/\|/g, M).replace(/M/g, ' || ') for the marker
\* M = '<<<OR>>>': every '||', and every remaining '|', becomes ' || '
RECURSIVE ReplacePipes(_)
ReplacePipes(s) ==
    IF s = <<>> THEN <<>>
    ELSE IF startsWith(s, Str_or) THEN Str_OR \o ReplacePipes(Slice(s, 2))
    ELSE IF s[1] = "|" THEN Str_OR \o ReplacePipes(Tail(s))
    ELSE <<s[1]>> \o ReplacePipes(Tail(s))

\* s.split(/\s*\|\|\s*/)
RECURSIVE SplitOr(_)
SplitOr(s) ==
    LET Split(i) ==
            <<TrimRight(SubSeq(s, 1, i - 1))>> \o SplitOr(TrimLeft(Slice(s, i + 1)))
    IN IF includes(s, Str_or) THEN Split(IndexOf(s, Str_or)) ELSE <<s>>

\* parts.join(sep)
RECURSIVE Join(_, _)
Join(parts, sep) ==
    IF Len(parts) = 0 THEN <<>>
    ELSE IF Len(parts) = 1 THEN parts[1]
    ELSE parts[1] \o sep \o Join(Tail(parts), sep)

\* .replace(/\s*\|\|\s*/g, ' || ')
NormalizeOr(s) == Join(SplitOr(s), Str_OR)

\* .replace(/,\s*/g, ' ')
RECURSIVE ReplaceCommas(_)
ReplaceCommas(s) ==
    IF s = <<>> THEN <<>>
    ELSE IF s[1] = "," THEN <<" ">> \o ReplaceCommas(TrimLeft(Tail(s)))
    ELSE <<s[1]>> \o ReplaceCommas(Tail(s))

\* the alternatives of /@(dev|alpha|beta|rc|stable)/, in order
FlagList == <<Str_atdev, Str_atalpha, Str_atbeta, Str_atrc, Str_atstable>>

\* .replace(/@(dev|alpha|beta|rc|stable)/gi, '')
RECURSIVE RemoveStabilityFlags(_)
RemoveStabilityFlags(s) ==
    LET Remove(lower) ==
            IF \E k \in 1..5 : startsWith(lower, FlagList[k])
            THEN RemoveStabilityFlags(
                    Slice(s, Len(FlagList[CHOOSE k \in 1..5 :
                                            /\ startsWith(lower, FlagList[k])
                                            /\ \A j \in 1..(k - 1) :
                                                 ~startsWith(lower, FlagList[j])])))
            ELSE <<s[1]>> \o RemoveStabilityFlags(Tail(s))
    IN IF s = <<>> THEN <<>> ELSE Remove(toLowerCase(s))

normalizeComposerConstraint(constraint) ==
    LET Star(normalized) ==
            IF normalized = Str_star \/ startsWith(normalized, Str_ext) THEN Str_star
            ELSE normalized
    IN IF constraint = <<>> THEN Str_star
       ELSE Star(RemoveStabilityFlags(ReplaceCommas(NormalizeOr(ReplacePipes(trim(constraint))))))

\* the loop of extractMinVersion over orParts[i..], with minVersion so far
RECURSIVE MinOverParts(_, _, _)
MinOverParts(orParts, i, minVersion) ==
    LET Step(coerced) ==
            IF IsSome(coerced)
               /\ (~IsSome(minVersion) \/ SemverLt(Get(coerced), Get(minVersion)))
            THEN MinOverParts(orParts, i + 1, coerced)
            ELSE MinOverParts(orParts, i + 1, minVersion)
    IN IF i > Len(orParts) THEN minVersion ELSE Step(coerce(trim(orParts[i])))

\* extractMinVersion: Some(version), or None for null
extractMinVersion(constraint) ==
    LET Min(normalized) ==
            IF normalized = Str_star THEN None
            ELSE MinOverParts(SplitOr(normalized), 1, None)
    IN Min(normalizeComposerConstraint(constraint))

\* group 2 of the first match of /<(=?)\s*(\d+(?:\.\d+)*)/ in s from 1-based
\* position i on; None when there is no match
RECURSIVE UpperBoundMatch(_, _)
UpperBoundMatch(s, i) ==
    LET Bound(afterWs) ==
            IF afterWs # <<>> /\ IsDigit(afterWs[1])
            THEN Some(SubSeq(afterWs, 1, DottedLen(afterWs)))
            ELSE UpperBoundMatch(s, i + 1)
    IN IF i > Len(s) THEN None
       ELSE IF s[i] # "<" THEN UpperBoundMatch(s, i + 1)
       ELSE Bound(TrimLeft(Slice(s, IF i < Len(s) /\ s[i + 1] = "=" THEN i + 1 ELSE i)))

\* group 1 of the first match of /\^(\d+)(?:\.(\d+))?(?:\.(\d+))?/ in s from
\* 1-based position i on; None when there is no match
RECURSIVE CaretMatch(_, _)
CaretMatch(s, i) ==
    IF i > Len(s) THEN None
    ELSE IF s[i] = "^" /\ i < Len(s) /\ IsDigit(s[i + 1])
    THEN Some(SubSeq(s, i + 1, i + RunLen(Slice(s, i), DigitChars)))
    ELSE CaretMatch(s, i + 1)

\* a maximum that reads the caret only and no explicit upper bound
CaretMaxOnly(constraint) ==
    LET Caret(caretMatch) ==
            IF IsSome(caretMatch)
            THEN Some(VersionString(NumInc(parseInt(Get(caretMatch))), Zero, Zero))
            ELSE None
        Max(normalized) ==
            IF normalized = Str_star THEN None
            ELSE Caret(CaretMatch(normalized, 1))
    IN Max(normalizeComposerConstraint(constraint))

\* extractMaxVersion: Some(version string), or None for null.  The caret
\* branch prints major + 1 without checking it: the string need not be a
\* valid version
extractMaxVersion(constraint) ==
    LET Caret(caretMatch) ==
            IF IsSome(caretMatch)
            THEN Some(VersionString(NumInc(parseInt(Get(caretMatch))), Zero, Zero))
            ELSE None
        Upper(normalized, upperBoundMatch) ==
            IF IsSome(upperBoundMatch) THEN coerce(Get(upperBoundMatch))
            ELSE Caret(CaretMatch(normalized, 1))
        Max(normalized) ==
            IF normalized = Str_star THEN None
            ELSE Upper(normalized, UpperBoundMatch(normalized, 1))
    IN Max(normalizeComposerConstraint(constraint))

\* a ConstraintCheckResult; threw: the call ends in an uncaught TypeError of
\* semver instead of returning
Satisfied == [threw |-> FALSE, satisfied |-> TRUE, reason |-> None]
Unsatisfied(packagePhp) ==
    [threw |-> FALSE, satisfied |-> FALSE, reason |-> Some(Str_requires \o packagePhp)]
Threw == [threw |-> TRUE, satisfied |-> FALSE, reason |-> None]

\* lines 184-187: the range test of one alternative
InRange(projectMin, part) == validRange(part) /\ satisfies(projectMin, part)

\* lines 189-201: the fallback on the minimum of one alternative
AboveMin(projectMin, part, partMin, hasMax) ==
    /\ IsSome(partMin)
    /\ IF startsWith(part, <<"^">>)
       THEN /\ SemverMajor(projectMin) = SemverMajor(Get(partMin))
            /\ SemverGte(projectMin, Get(partMin))
       ELSE SemverGte(projectMin, Get(partMin)) /\ ~hasMax

\* the loop of checkPhpCompatibility over packageParts[i..]
RECURSIVE CheckParts(_, _, _, _)
CheckParts(packageParts, i, projectMin, packagePhp) ==
    LET Part(part, partMax) ==
            IF IsSome(partMax) /\ ~ValidVersion(Get(partMax)) THEN Threw
            ELSE IF IsSome(partMax) /\ SemverGte(projectMin, Get(partMax))
            THEN CheckParts(packageParts, i + 1, projectMin, packagePhp)
            ELSE IF InRange(projectMin, trim(part)) THEN Satisfied
            ELSE IF AboveMin(projectMin, trim(part), extractMinVersion(part), IsSome(partMax))
            THEN Satisfied
            ELSE CheckParts(packageParts, i + 1, projectMin, packagePhp)
    IN IF i > Len(packageParts) THEN Unsatisfied(packagePhp)
       ELSE Part(packageParts[i], extractMaxVersion(packageParts[i]))

\* packageNorm.split(/\s*\|\|\s*/).filter((p) => p.trim())
PackageParts(packagePhp) ==
    SelectSeq(SplitOr(normalizeComposerConstraint(packagePhp)), LAMBDA q : trim(q) # <<>>)

\* a check that refuses a project constraint without a minimum
RefuseWithoutMinimum(projectPhp, packagePhp) ==
    LET Check(projectMin) ==
            IF ~IsSome(projectMin) THEN Unsatisfied(packagePhp)
            ELSE CheckParts(PackageParts(packagePhp), 1, Get(projectMin), packagePhp)
    IN IF packagePhp = <<>> \/ packagePhp = Str_star THEN Satisfied
       ELSE IF projectPhp = <<>> THEN Satisfied
       ELSE Check(extractMinVersion(projectPhp))

\* lines 167-205
checkPhpCompatibility(projectPhp, packagePhp) ==
    LET Check(projectMin) ==
            IF ~IsSome(projectMin) THEN Satisfied
            ELSE CheckParts(PackageParts(packagePhp), 1, Get(projectMin), packagePhp)
    IN IF packagePhp = <<>> \/ packagePhp = Str_star THEN Satisfied
       ELSE IF projectPhp = <<>> THEN Satisfied
       ELSE Check(extractMinVersion(projectPhp))

----------------------------------------------------------------------------
(* src/types.ts *)

Stabilities == {"dev", "alpha", "beta", "RC", "stable"}

STABILITY_ORDER(stability) ==
    CASE stability = "dev" -> 0
      [] stability = "alpha" -> 1
      [] stability = "beta" -> 2
      [] stability = "RC" -> 3
      [] stability = "stable" -> 4

\* the abandoned marker of a PackagistVersion: absent, true, or a package name
NotAbandoned == [kind |-> "none", name |-> <<>>]
AbandonedTrue == [kind |-> "true", name |-> <<>>]
AbandonedFor(name) == [kind |-> "string", name |-> name]

\* a PackagistVersion; php is require?.php, absent when there is none
PackagistVersion(version, time, php, abandoned) ==
    [version |-> version, time |-> time, php |-> php, abandoned |-> abandoned]

----------------------------------------------------------------------------
(* The inputs of the model *)

\* the longest version list of a registry response
MaxVersions == 2

Php_8_0_0 == <<"8",".","0",".","0">>
Php_c8_0 == <<"^","8",".","0">>
Php_c8_1 == <<"^","8",".","1">>
Php_c7_4 == <<"^","7",".","4">>
\* a caret requirement on Number.MAX_SAFE_INTEGER
Php_cMaxSafe == <<"^">> \o MAX_SAFE_INTEGER

Pkg_new == <<"n","e","w","/","p","k","g">>

\* the published versions a registry response is drawn from
Registry ==
    { PackagistVersion(<<"2",".","0",".","0">>, "2024-06-01", Some(Php_c8_1), NotAbandoned),
      PackagistVersion(<<"1",".","5",".","0">>, "2024-05-01", Some(Php_c8_0), AbandonedFor(Pkg_new)),
      PackagistVersion(<<"1",".","0",".","0">>, "2024-01-01", Some(Php_c7_4), AbandonedTrue),
      PackagistVersion(<<"1",".","9",".","0","-","b","e","t","a">>, "2024-03-01", None, NotAbandoned),
      PackagistVersion(<<"3",".","0",".","0","-","R","C","1">>, "2024-07-01", Some(Php_c8_0), NotAbandoned),
      PackagistVersion(<<"v","1",".","6",".","0","-","a","l","p","h","a","2">>, "2024-05-15",
                       Some(Php_cMaxSafe), AbandonedTrue),
      PackagistVersion(<<"d","e","v","-","m","a","i","n">>, "2024-08-01", Some(Php_c8_1),
                       AbandonedFor(Pkg_new)) }

\* the version lists of a response: every list of at most MaxVersions entries
VersionLists == UNION { [1..n -> Registry] : n \in 0..MaxVersions }

\* the current constraint of the manifest, when there is one
CurrentVersions == { None, Some(<<"^","1",".","0">>) }

\* the PHP constraint of the manifest, when there is one
ProjectPhps == { None, Some(Php_8_0_0) }

\* the largest major, minor or patch number of a version handed to getDiffType
MaxComponent == 2

\* the versions major.minor.patch with components up to MaxComponent
PlainVersions ==
    { VersionString(<<Digits[a + 1]>>, <<Digits[b + 1]>>, <<Digits[c + 1]>>) :
        a \in 0..MaxComponent, b \in 0..MaxComponent, c \in 0..MaxComponent }

\* the constraints of a manifest on them: exact, caret, tilde and range
ConstraintPrefixes == { <<>>, <<"^">>, <<"~">>, <<">", "=">> }
PlainConstraints == { p \o v : p \in ConstraintPrefixes, v \in PlainVersions }

\* the (currentVersion, latestVersion) pairs of getDiffType; a branch name and
\* a prerelease stand for what the registry and a manifest hold besides
DiffCurrents == PlainConstraints \cup { <<"d","e","v","-","m","a","i","n">> }
DiffLatests ==
    PlainVersions \cup { <<"d","e","v","-","m","a","i","n">>,
                         <<"3",".","0",".","0","-","R","C","1">> }

\* The functions of version.ts and php.ts on the strings of these inputs,
\* computed once
VersionStrings == { v.version : v \in Registry } \cup { Get(c) : c \in CurrentVersions \ {None} }
PackagePhps == { Get(v.php) : v \in { w \in Registry : IsSome(w.php) } }
StabilityTable == [v \in VersionStrings |-> getVersionStability(v)]
NormalizeTable == [v \in VersionStrings |-> normalizeVersion(v)]
PhpTable ==
    [p \in { Get(c) : c \in ProjectPhps \ {None} }, q \in PackagePhps |->
        checkPhpCompatibility(p, q)]

StabilityOf(version) == StabilityTable[version]
NormalizedOf(version) == NormalizeTable[version]
PhpCheck(php, packagePhp) == PhpTable[php, packagePhp]

----------------------------------------------------------------------------
(* The version selector of fetchPackage, src/fetcher.ts *)

\* the truthiness of an optional string: present and not ''
Truthy(o) == IsSome(o) /\ Get(o) # <<>>

\* array.find: the first element seq[i] with ok[i], None when there is none
Find(seq, ok) ==
    IF \E i \in 1..Len(seq) : ok[i]
    THEN Some(seq[CHOOSE i \in 1..Len(seq) : ok[i] /\ \A j \in 1..(i - 1) : ~ok[j]])
    ELSE None

\* a variant of the filter that takes the minimum stability as a strict bound;
\* C6_StabilityFilter tells it from the filter of lines 79-85
StrictlyAboveMinimum(vs, minStab) ==
    SelectSeq(vs, LAMBDA v :
        STABILITY_ORDER(StabilityOf(v.version)) > STABILITY_ORDER(minStab))

\* lines 79-85
EligibleVersions(vs, minStab) ==
    SelectSeq(vs, LAMBDA v :
        STABILITY_ORDER(StabilityOf(v.version)) >= STABILITY_ORDER(minStab))

\* lines 96-98, 120, 150
StableVersions(eligible) ==
    SelectSeq(eligible, LAMBDA v : StabilityOf(v.version) = "stable")

\* a variant of stage 2 without the stable preference; C1_StablePreference
\* tells it from lines 93-106
FirstEligible(eligible, prefer) == eligible[1]

\* lines 93-106: the selection after the stable preference
PreferredVersion(eligible, prefer) ==
    LET First(stableVersions) ==
            IF Len(stableVersions) > 0 THEN stableVersions[1] ELSE eligible[1]
    IN IF prefer THEN First(StableVersions(eligible)) ELSE eligible[1]

\* a variant of the candidate pool that is never restricted to the stable
\* versions; C7_StablePreferenceKept tells it from lines 119-121 and 149-151
AllEligible(eligible, prefer) == eligible

\* lines 119-121 and 149-151
VersionsToCheck(eligible, prefer) ==
    IF prefer THEN StableVersions(eligible) ELSE eligible

\* a variant of the callback that rejects an entry without a PHP requirement;
\* C3_RuntimeGate tells it from lines 123-126
DeclaredAndSatisfied(php, v) ==
    Truthy(v.php) /\ PhpCheck(php, Get(v.php)).satisfied

\* the callback of find at lines 123-126, for a call that does not throw
PhpAcceptable(php, v) ==
    ~Truthy(v.php) \/ PhpCheck(php, Get(v.php)).satisfied

\* the callback of find at lines 123-126 throws on v
PhpCheckThrows(php, v) == Truthy(v.php) /\ PhpCheck(php, Get(v.php)).threw

\* find at lines 123-126 evaluates its callback on the entries up to and
\* including the first acceptable one; it throws when one of them throws
CompatibleSearchThrows(pool, php) ==
    \E i \in 1..Len(pool) :
        /\ PhpCheckThrows(php, pool[i])
        /\ \A j \in 1..(i - 1) : ~PhpAcceptable(php, pool[j])

\* the outcomes of lines 110-132 that leave the selection alone: the gate does
\* not apply or is passed, and a TypeError of semver leaves the function
GateUnchanged(sel) ==
    [threw |-> FALSE, selected |-> sel, phpIncompatible |-> FALSE, skippedVersion |-> None]
GateThrown(sel) ==
    [threw |-> TRUE, selected |-> sel, phpIncompatible |-> FALSE, skippedVersion |-> None]

\* lines 115-116 and 128-130: the selection failed the check
Substituted(sel, compatibleVersion) ==
    [threw |-> FALSE,
     selected |-> IF IsSome(compatibleVersion) /\ Get(compatibleVersion) # sel
                  THEN Get(compatibleVersion) ELSE sel,
     phpIncompatible |-> TRUE,
     skippedVersion |-> Some(sel.version)]

\* lines 118-130: the search for a compatible version in pool
SearchCompatible(pool, php, sel) ==
    IF CompatibleSearchThrows(pool, php) THEN GateThrown(sel)
    ELSE Substituted(sel, Find(pool, [i \in 1..Len(pool) |-> PhpAcceptable(php, pool[i])]))

\* lines 110-132: the runtime gate on the selection sel
RuntimeGate(eligible, prefer, php, sel) ==
    LET Check(phpCheck) ==
            IF phpCheck.threw THEN GateThrown(sel)
            ELSE IF phpCheck.satisfied THEN GateUnchanged(sel)
            ELSE SearchCompatible(VersionsToCheck(eligible, prefer), Get(php), sel)
    IN IF ~(Truthy(php) /\ Truthy(sel.php)) THEN GateUnchanged(sel)
       ELSE Check(PhpCheck(Get(php), Get(sel.php)))

\* the callback of find at lines 153-156
SameMajor(v, currentMajor) ==
    LET Same(norm) == IsSome(norm) /\ SemverMajor(Get(norm)) = currentMajor
    IN Same(NormalizedOf(v.version))

\* lines 153-156: the first entry of pool on the current major
SameMajorVersion(pool, currentMajor) ==
    Find(pool, [i \in 1..Len(pool) |-> SameMajor(pool[i], currentMajor)])

\* a variant of the major gate that holds a major update back whatever
\* allowMajor says; C2_MajorGate tells it from lines 146-160
MajorUpdateAlwaysHeldBack(allow, sel, sameMajorVersion) ==
    [selected |-> IF IsSome(sameMajorVersion) THEN Get(sameMajorVersion) ELSE sel,
     majorDetected |-> Some(sel.version)]

\* lines 146-160: the selection is a major update
MajorUpdate(allow, sel, sameMajorVersion) ==
    [selected |-> IF ~allow /\ IsSome(sameMajorVersion) THEN Get(sameMajorVersion) ELSE sel,
     majorDetected |-> Some(sel.version)]

\* lines 135-164: the major gate on the selection sel
MajorGate(eligible, prefer, current, allow, sel) ==
    LET Majors(currentMajor, selectedMajor) ==
            IF NumGT(selectedMajor, currentMajor)
            THEN MajorUpdate(allow, sel,
                             SameMajorVersion(VersionsToCheck(eligible, prefer),
                                              currentMajor))
            ELSE [selected |-> sel, majorDetected |-> None]
        Norms(currentNorm, selectedNorm) ==
            IF IsSome(currentNorm) /\ IsSome(selectedNorm)
            THEN Majors(SemverMajor(Get(currentNorm)), SemverMajor(Get(selectedNorm)))
            ELSE [selected |-> sel, majorDetected |-> None]
    IN IF ~Truthy(current) THEN [selected |-> sel, majorDetected |-> None]
       ELSE Norms(NormalizedOf(Get(current)), NormalizedOf(sel.version))

\* a variant of the annotation that knows the string marker only;
\* C10_DeprecationOfFinalSelection tells it from lines 166-176
StringMarkerOnly(sel) ==
    IF sel.abandoned.kind = "string"
    THEN [deprecated |-> Some(TRUE), replacement |-> Some(sel.abandoned.name)]
    ELSE [deprecated |-> None, replacement |-> None]

\* lines 166-176
DeprecatedInfo(sel) ==
    IF sel.abandoned.kind = "string"
    THEN [deprecated |-> Some(TRUE), replacement |-> Some(sel.abandoned.name)]
    ELSE IF sel.abandoned.kind = "true"
    THEN [deprecated |-> Some(TRUE), replacement |-> None]
    ELSE [deprecated |-> None, replacement |-> None]

\* a variant of the fallback that reports the PHP requirement of the first
\* entry; C8_BareFallback tells it from line 90
FallbackWithRequirement(first) ==
    [latestVersion |-> first.version, releaseTime |-> first.time,
     phpRequirement |-> first.php, majorVersion |-> None, deprecated |-> None,
     replacement |-> None, phpIncompatible |-> None, skippedVersion |-> None,
     require |-> first.php]

\* line 90: the result when no version meets the minimum stability
BareResult(first) ==
    [latestVersion |-> first.version, releaseTime |-> first.time,
     phpRequirement |-> None, majorVersion |-> None, deprecated |-> None,
     replacement |-> None, phpIncompatible |-> None, skippedVersion |-> None,
     require |-> None]

\* lines 178-188; phpReq is the phpRequirement read at line 134
FetchResult(sel, phpReq, major, incompatible, skipped) ==
    LET Result(deprecatedInfo) ==
            [latestVersion |-> sel.version, releaseTime |-> sel.time,
             phpRequirement |-> IF IsSome(sel.php) THEN sel.php ELSE phpReq,
             majorVersion |-> major,
             deprecated |-> deprecatedInfo.deprecated,
             replacement |-> deprecatedInfo.replacement,
             phpIncompatible |-> IF incompatible THEN Some(TRUE) ELSE None,
             skippedVersion |-> skipped,
             require |-> sel.php]
    IN Result(DeprecatedInfo(sel))

----------------------------------------------------------------------------
(* The state of one fetchPackage call, from the parsed response on *)

VARIABLES
    versions,           \* data.packages?.[packageName] ?? []
    minStability, preferStable, currentVersion, allowMajor, projectPhp,
    pc,                 \* the position in fetchPackage
    eligibleVersions,
    selectedVersion,    \* None for null
    phpIncompatible, skippedVersion,
    phpRequirement,     \* the constant of line 134
    majorDetected,
    result,             \* the value the call returns, None for null
    callee,             \* the function of src/utils called on its own, "none" for none
    callArgs,           \* its arguments
    callResult,         \* None until it returns, then Some(its value)
    entries,            \* fetchAllPackages: Object.entries(packages), the names
    batchIndex,         \* the loop variable i
    inFlight,           \* the names whose fetchPackage promise has not settled
    lookups,            \* how many times fetchPackage was called for each name
    outcomes,           \* what each settled lookup resolved to
    results,            \* the Map the function returns
    allPc,              \* the position in fetchAllPackages
    packageName,        \* fetchPackage: the package looked up
    noCache,
    cache,              \* the files of the cache directory, by key
    now,                \* Date.now()
    cachedEntry,        \* the local of line 46, None for null
    headers,            \* the If-Modified-Since header of the request, None when not sent
    response,           \* the response received, None before it arrives
    options,            \* run: the CLIOptions
    composerJson,       \* the manifest file, None when it cannot be read
    runPc,              \* the position in run
    filteredPackages,   \* the entries of the manifest that are looked up
    fetchArgs,          \* the arguments run passes to fetchAllPackages, None before the call
    runResults,         \* the const results of run: each name looked up, with None
                        \* where the Map has no entry
    updates,            \* the list handed to renderTable
    selectedUpdates,
    success,            \* what writeComposerJson returned, None when it was not called
    writes,             \* how many times composer.json was written
    installs,           \* how many times composer update was spawned
    exitCode            \* the argument of process.exit, None when it was not called

vars == <<versions, minStability, preferStable, currentVersion, allowMajor, projectPhp,
          pc, eligibleVersions, selectedVersion, phpIncompatible, skippedVersion,
          phpRequirement, majorDetected, result, callee, callArgs, callResult,
          entries, batchIndex, inFlight, lookups, outcomes, results, allPc,
          packageName, noCache, cache, now, cachedEntry, headers, response,
          options, composerJson, runPc, filteredPackages, fetchArgs, runResults, updates,
          selectedUpdates, success, writes, installs, exitCode>>

call == <<callee, callArgs, callResult>>

params == <<versions, minStability, preferStable, currentVersion, allowMajor, projectPhp>>

fetch == <<params, pc, eligibleVersions, selectedVersion, phpIncompatible, skippedVersion,
           phpRequirement, majorDetected, result>>

all == <<entries, batchIndex, inFlight, lookups, outcomes, results, allPc>>

\* what a fetchPackage call, a call of a function of src/utils and a
\* fetchAllPackages call leave alone
http == <<packageName, noCache, cache, now, cachedEntry, headers, response>>

cli == <<options, composerJson, runPc, filteredPackages, fetchArgs, runResults, updates,
         selectedUpdates, success, writes, installs, exitCode>>

exceptFetch == <<call, all, http, cli>>
exceptCall == <<fetch, all, http, cli>>
exceptAll == <<fetch, call, http, cli>>
exceptRun == <<fetch, call, all, http>>

\* a Map with no entries
EmptyMap == [name \in {} |-> None]

\* no fetchPackage call is under way
NoFetch ==
    /\ versions = <<>>
    /\ minStability = "stable"
    /\ preferStable = TRUE
    /\ currentVersion = None
    /\ allowMajor = TRUE
    /\ projectPhp = None
    /\ pc = "idle"
    /\ eligibleVersions = <<>>
    /\ selectedVersion = None
    /\ phpIncompatible = FALSE
    /\ skippedVersion = None
    /\ phpRequirement = None
    /\ majorDetected = None
    /\ result = None

\* no function of src/utils is called on its own
NoCall ==
    /\ callee = "none"
    /\ callArgs = <<>>
    /\ callResult = None

\* no fetchAllPackages call is under way
NoAll ==
    /\ entries = <<>>
    /\ batchIndex = 0
    /\ inFlight = {}
    /\ lookups = EmptyMap
    /\ outcomes = EmptyMap
    /\ results = EmptyMap
    /\ allPc = "idle"

\* no request is under way and the cache directory is empty
NoHttp ==
    /\ packageName = <<>>
    /\ noCache = FALSE
    /\ cache = EmptyMap
    /\ now = 0
    /\ cachedEntry = None
    /\ headers = None
    /\ response = None

\* the command is not running
NoRun ==
    /\ options = <<>>
    /\ composerJson = None
    /\ runPc = "idle"
    /\ filteredPackages = <<>>
    /\ fetchArgs = None
    /\ runResults = EmptyMap
    /\ updates = <<>>
    /\ selectedUpdates = <<>>
    /\ success = None
    /\ writes = 0
    /\ installs = 0
    /\ exitCode = None

Init ==
    /\ versions \in VersionLists
    /\ minStability \in Stabilities
    /\ preferStable \in BOOLEAN
    /\ currentVersion \in CurrentVersions
    /\ allowMajor \in BOOLEAN
    /\ projectPhp \in ProjectPhps
    /\ pc = "fetched"
    /\ eligibleVersions = <<>>
    /\ selectedVersion = None
    /\ phpIncompatible = FALSE
    /\ skippedVersion = None
    /\ phpRequirement = None
    /\ majorDetected = None
    /\ result = None
    /\ NoCall
    /\ NoAll
    /\ NoHttp
    /\ NoRun

\* return at lines 77, 90, 190 and 192
Return(value) ==
    /\ pc' = "done"
    /\ result' = value

\* lines 75-108: the stability filter and the stable preference
SelectPreferred ==
    /\ pc = "fetched"
    /\ LET Select(eligible) ==
               IF Len(versions) = 0
               THEN /\ Return(None)
                    /\ UNCHANGED <<eligibleVersions, selectedVersion>>
               ELSE IF Len(eligible) = 0
               THEN /\ Return(Some(BareResult(versions[1])))
                    /\ eligibleVersions' = eligible
                    /\ UNCHANGED selectedVersion
               ELSE /\ pc' = "selected"
                    /\ eligibleVersions' = eligible
                    /\ selectedVersion' = Some(PreferredVersion(eligible, preferStable))
                    /\ UNCHANGED result
       IN Select(EligibleVersions(versions, minStability))
    /\ UNCHANGED <<params, phpIncompatible, skippedVersion, phpRequirement, majorDetected, exceptFetch>>

\* lines 110-134: the runtime gate; a TypeError of semver is caught at line 191
CheckPhp ==
    /\ pc = "selected"
    /\ LET Apply(gate) ==
               IF gate.threw
               THEN /\ Return(None)
                    /\ UNCHANGED <<selectedVersion, phpIncompatible, skippedVersion,
                                   phpRequirement>>
               ELSE /\ pc' = "phpChecked"
                    /\ selectedVersion' = Some(gate.selected)
                    /\ phpIncompatible' = gate.phpIncompatible
                    /\ skippedVersion' = gate.skippedVersion
                    /\ phpRequirement' = gate.selected.php
                    /\ UNCHANGED result
       IN Apply(RuntimeGate(eligibleVersions, preferStable, projectPhp, Get(selectedVersion)))
    /\ UNCHANGED <<params, eligibleVersions, majorDetected, exceptFetch>>

\* lines 135-164: the major gate
CheckMajor ==
    /\ pc = "phpChecked"
    /\ LET Apply(gate) ==
               /\ selectedVersion' = Some(gate.selected)
               /\ majorDetected' = gate.majorDetected
       IN Apply(MajorGate(eligibleVersions, preferStable, currentVersion, allowMajor,
                          Get(selectedVersion)))
    /\ pc' = "majorChecked"
    /\ UNCHANGED <<params, eligibleVersions, phpIncompatible, skippedVersion,
                   phpRequirement, result, exceptFetch>>

\* lines 166-190: the deprecation annotation and the result
Annotate ==
    /\ pc = "majorChecked"
    /\ Return(Some(FetchResult(Get(selectedVersion), phpRequirement, majorDetected,
                               phpIncompatible, skippedVersion)))
    /\ UNCHANGED <<params, eligibleVersions, selectedVersion, phpIncompatible,
                   skippedVersion, phpRequirement, majorDetected, exceptFetch>>

Next == SelectPreferred \/ CheckPhp \/ CheckMajor \/ Annotate

Spec == Init /\ [][Next]_vars

----------------------------------------------------------------------------
(* A call of getDiffType on its own, src/utils/version.ts *)

InitVersion ==
    /\ NoFetch
    /\ callee = "getDiffType"
    /\ callArgs \in DiffCurrents \X DiffLatests
    /\ callResult = None
    /\ NoAll
    /\ NoHttp
    /\ NoRun

\* lines 203-221
CallGetDiffType ==
    /\ callee = "getDiffType"
    /\ callResult = None
    /\ callResult' = Some(getDiffType(callArgs[1], callArgs[2]))
    /\ UNCHANGED <<exceptCall, callee, callArgs>>

NextVersion == CallGetDiffType

SpecVersion == InitVersion /\ [][NextVersion]_vars

----------------------------------------------------------------------------
(* The properties of the version selector, stated on the inputs of the call *)

\* the rank of a stability: dev 0 < alpha 1 < beta 2 < RC 3 < stable 4
RankOf(stability) ==
    CASE stability = "dev" -> 0
      [] stability = "alpha" -> 1
      [] stability = "beta" -> 2
      [] stability = "RC" -> 3
      [] stability = "stable" -> 4

\* the positions in the version list of the versions meeting the minimum
\* stability, and of the stable ones among them
EligibleIndexes ==
    { i \in 1..Len(versions) :
        RankOf(StabilityOf(versions[i].version)) >= RankOf(minStability) }
StableIndexes ==
    { i \in EligibleIndexes : StabilityOf(versions[i].version) = "stable" }

\* the positions of the candidate pool of the runtime gate and the major gate
PoolIndexes == IF preferStable THEN StableIndexes ELSE EligibleIndexes

\* the first position, in list order, of a non-empty set of positions
FirstOf(S) == CHOOSE i \in S : \A j \in S : i <= j

\* the entries at the positions S, in list order
EntriesAt(S) ==
    [k \in 1..Cardinality(S) |->
        versions[CHOOSE i \in S : Cardinality({ j \in S : j < i }) = k - 1]]

\* the position of the working selection of stage 2, when a version is eligible
Stage2Index ==
    IF preferStable /\ StableIndexes # {} THEN FirstOf(StableIndexes)
    ELSE FirstOf(EligibleIndexes)

\* a consumer PHP constraint is supplied and the entry v declares a PHP
\* requirement that checkPhpCompatibility reports unsatisfied
ReportedUnsatisfied(v) ==
    /\ Truthy(projectPhp)
    /\ Truthy(v.php)
    /\ ~PhpCheck(Get(projectPhp), Get(v.php)).threw
    /\ ~PhpCheck(Get(projectPhp), Get(v.php)).satisfied

\* the PHP requirement req of an entry is absent, or compatible with the
\* consumer PHP constraint
AbsentOrCompatible(req) ==
    \/ ~Truthy(req)
    \/ /\ ~PhpCheck(Get(projectPhp), Get(req)).threw
       /\ PhpCheck(Get(projectPhp), Get(req)).satisfied

\* the positions of the pool's entries with an absent or compatible requirement
CompatibleIndexes == { i \in PoolIndexes : AbsentOrCompatible(versions[i].php) }

\* the version of the entry v normalizes, and its major is that of current
HasMajorOf(v, current) ==
    /\ IsSome(NormalizedOf(v.version))
    /\ SemverMajor(Get(NormalizedOf(v.version)))
         = SemverMajor(Get(NormalizedOf(current)))

\* a current version is supplied, it and the version of the entry v normalize,
\* and the major of v exceeds the current major
ExceedsCurrentMajor(v) ==
    /\ Truthy(currentVersion)
    /\ IsSome(NormalizedOf(Get(currentVersion)))
    /\ IsSome(NormalizedOf(v.version))
    /\ NumGT(SemverMajor(Get(NormalizedOf(v.version))),
             SemverMajor(Get(NormalizedOf(Get(currentVersion)))))

\* the positions of the pool's entries on the current major
SameMajorIndexes == { i \in PoolIndexes : HasMajorOf(versions[i], Get(currentVersion)) }

\* the call has returned a result
Returned == pc = "done" /\ result # None

----------------------------------------------------------------------------
\* C1: when at least one version meets the minimum stability, the working
\* selection after stage 2 is the first entry, in list order, that is stable,
\* if preferStable is set and an eligible entry is stable, and the first
\* eligible entry in list order otherwise.
C1_StablePreference ==
    [][(pc = "fetched" /\ EligibleIndexes # {})
          => /\ pc' = "selected"
             /\ selectedVersion' = Some(versions[Stage2Index])]_vars

\* stage 2 has passed over an earlier eligible entry for the first stable one
C1_StablePreferred ==
    /\ pc = "selected"
    /\ preferStable
    /\ StableIndexes # {}
    /\ FirstOf(EligibleIndexes) < FirstOf(StableIndexes)
    /\ selectedVersion = Some(versions[FirstOf(StableIndexes)])

\* C6: after stage 1 the eligible versions are exactly the input versions
\* whose stability rank is at least the rank of the minimum stability, in
\* their original order; an entry classified below the minimum stability is
\* excluded and an entry classified as the minimum stability is included.
C6_StabilityFilter ==
    pc # "fetched" /\ Len(versions) > 0
        => /\ eligibleVersions = EntriesAt(EligibleIndexes)
           /\ \A i, j \in 1..Len(versions) :
                (/\ RankOf(StabilityOf(versions[i].version))
                      < RankOf(StabilityOf(versions[j].version))
                 /\ minStability = StabilityOf(versions[j].version))
                    => /\ \E k \in 1..Len(eligibleVersions) : eligibleVersions[k] = versions[j]
                       /\ \A k \in 1..Len(eligibleVersions) : eligibleVersions[k] # versions[i]

\* stage 1 has dropped an entry below the minimum stability and kept a later
\* entry that is exactly at it
C6_FilterDropsLowerRank ==
    /\ pc = "selected"
    /\ Len(versions) = 2
    /\ RankOf(StabilityOf(versions[1].version)) < RankOf(minStability)
    /\ StabilityOf(versions[2].version) = minStability
    /\ eligibleVersions = <<versions[2]>>

\* C8: when the list is not empty and no version meets the minimum stability,
\* the result is the first entry of the list with its version and release time
\* alone: every other field is absent.
C8_BareFallback ==
    (pc = "done" /\ Len(versions) > 0 /\ EligibleIndexes = {})
        => result = Some([latestVersion |-> versions[1].version,
                          releaseTime |-> versions[1].time,
                          phpRequirement |-> None, majorVersion |-> None,
                          deprecated |-> None, replacement |-> None,
                          phpIncompatible |-> None, skippedVersion |-> None,
                          require |-> None])

\* the fallback has returned an abandoned first entry that declares a PHP
\* requirement, with a current version and a consumer PHP constraint supplied
C8_FallbackOfAbandonedEntry ==
    /\ pc = "done"
    /\ Len(versions) > 0
    /\ EligibleIndexes = {}
    /\ versions[1].abandoned # NotAbandoned
    /\ Truthy(versions[1].php)
    /\ Truthy(currentVersion)
    /\ Truthy(projectPhp)
    /\ result # None

\* C9: the call returns no result exactly when the version list is empty.
C9_NoResultOnlyForEmptyList ==
    pc = "done" => (result = None <=> Len(versions) = 0)

C4_ReturnedVersionIsUsable ==
    (Returned /\ Truthy(projectPhp) /\ CompatibleIndexes # {})
        => AbsentOrCompatible(Get(result).require)

\* C7: a returned version is one of the eligible versions whenever a version is
\* eligible, and it is stable when preferStable is set and an eligible version
\* is stable.
C7_StablePreferenceKept ==
    (Returned /\ EligibleIndexes # {})
        => /\ \E i \in EligibleIndexes :
                /\ versions[i].version = Get(result).latestVersion
                /\ versions[i].time = Get(result).releaseTime
           /\ (preferStable /\ StableIndexes # {})
                => \E i \in StableIndexes :
                     /\ versions[i].version = Get(result).latestVersion
                     /\ versions[i].time = Get(result).releaseTime

\* with preferStable set, a gate has replaced the stage-2 selection and the
\* call has returned another stable version
C7_StableAfterReplacement ==
    /\ Returned
    /\ preferStable
    /\ StableIndexes # {}
    /\ Get(result).latestVersion # versions[Stage2Index].version
    /\ StabilityOf(Get(result).latestVersion) = "stable"

----------------------------------------------------------------------------
(* The properties of getDiffType *)

\* the versions both arguments of the call normalize to
DiffCurrent == Get(SemVer(Get(normalizeVersion(callArgs[1]))))
DiffLatest == Get(SemVer(Get(normalizeVersion(callArgs[2]))))

\* C5: getDiffType returns 'major', 'minor' or 'patch' only when the
\* candidate's normalized version is strictly greater than the current's, in
\* the order of major, then minor, then patch; it returns null when the
\* candidate is equal or lower.
C5_DiffOnlyForGreaterVersion ==
    (/\ callee = "getDiffType"
     /\ IsSome(callResult)
     /\ IsSome(normalizeVersion(callArgs[1]))
     /\ IsSome(normalizeVersion(callArgs[2])))
        => (Get(callResult) # "null" <=> CompareMain(DiffLatest, DiffCurrent) = 1)


----------------------------------------------------------------------------
(* fetchAllPackages, src/fetcher.ts lines 203-233 *)

\* the most packages of a composer.json
MaxPackages == 7

\* line 213
CONCURRENCY == 5

PackageNames == <<"a/a", "b/b", "c/c", "d/d", "e/e", "f/f", "g/g", "h/h", "i/i">>

\* Object.entries(packages) of a manifest that requires the first n names;
\* the keys of an object are distinct
EntriesOf(n) == SubSeq(PackageNames, 1, n)

NamesOf(seq) == { seq[k] : k \in 1..Len(seq) }

\* the value a lookup of a package resolves to when it finds an update
LookupResult(name) == [latestVersion |-> <<"2", ".", "0", ".", "0">>, lookup |-> name]

\* what fetchPackage resolves to: null (non-OK status, network error, empty
\* version list) or a result; it never rejects, its catch at line 191 returns null
LookupOutcomes(name) == {None, Some(LookupResult(name))}

\* a window that takes every remaining entry
RestOfEntries(seq, from) == SubSeq(seq, from + 1, Len(seq))

\* line 216: entries.slice(i, i + CONCURRENCY)
Batch(seq, from) ==
    SubSeq(seq, from + 1, IF from + CONCURRENCY < Len(seq) THEN from + CONCURRENCY ELSE Len(seq))

\* Map.prototype.set
MapSet(map, key, value) ==
    [k \in DOMAIN map \cup {key} |-> IF k = key THEN value ELSE map[k]]

\* a callback that empties the map when its lookup fails
RecordOrClear(map, name, outcome) ==
    IF IsSome(outcome) THEN MapSet(map, name, Get(outcome)) ELSE EmptyMap

\* line 228: if (result) results.set(name, result)
RecordResult(map, name, outcome) ==
    IF IsSome(outcome) THEN MapSet(map, name, Get(outcome)) ELSE map

InitAll ==
    /\ NoFetch
    /\ NoCall
    /\ NoHttp
    /\ NoRun
    /\ entries \in { EntriesOf(n) : n \in 0..MaxPackages }
    /\ batchIndex = 0
    /\ inFlight = {}
    /\ lookups = [name \in NamesOf(entries) |-> 0]
    /\ outcomes = EmptyMap
    /\ results = EmptyMap
    /\ allPc = "loop"

\* lines 215-229: the loop test, the slice and batch.map, which calls
\* fetchPackage for every entry of the batch before the first await
StartBatch ==
    /\ allPc = "loop"
    /\ batchIndex < Len(entries)
    /\ LET Start(names) ==
               /\ inFlight' = inFlight \cup names
               /\ lookups' = [name \in DOMAIN lookups |->
                                 IF name \in names THEN lookups[name] + 1 ELSE lookups[name]]
       IN Start(NamesOf(Batch(entries, batchIndex)))
    /\ allPc' = "awaiting"
    /\ UNCHANGED <<entries, batchIndex, outcomes, results, exceptAll>>

\* lines 219-228: one lookup of the batch settles, in any order, and its
\* callback records the result
SettleLookup(name, outcome) ==
    /\ allPc = "awaiting"
    /\ name \in inFlight
    /\ inFlight' = inFlight \ {name}
    /\ outcomes' = MapSet(outcomes, name, outcome)
    /\ results' = RecordResult(results, name, outcome)
    /\ UNCHANGED <<entries, batchIndex, lookups, allPc, exceptAll>>

\* line 231 and the loop increment: Promise.all resolves once every promise
\* of the batch has
FinishBatch ==
    /\ allPc = "awaiting"
    /\ inFlight = {}
    /\ batchIndex' = batchIndex + CONCURRENCY
    /\ allPc' = "loop"
    /\ UNCHANGED <<entries, inFlight, lookups, outcomes, results, exceptAll>>

\* line 233
ReturnAll ==
    /\ allPc = "loop"
    /\ batchIndex >= Len(entries)
    /\ allPc' = "returned"
    /\ UNCHANGED <<entries, batchIndex, inFlight, lookups, outcomes, results, exceptAll>>

NextAll ==
    \/ StartBatch
    \/ \E name \in inFlight : \E outcome \in LookupOutcomes(name) : SettleLookup(name, outcome)
    \/ FinishBatch
    \/ ReturnAll

\* every HTTP exchange settles, and the event loop runs every continuation
\* that is ready
SpecAll == InitAll /\ [][NextAll]_vars /\ WF_vars(NextAll)

\* C11: fetchAllPackages never has more than five lookups in flight, and it
\* starts a lookup only when no lookup of an earlier batch is still in flight
C11_BoundedBatches ==
    [][/\ Cardinality(inFlight') <= 5
       /\ (\E name \in DOMAIN lookups : lookups'[name] > lookups[name]) => inFlight = {}]_vars

\* the second batch of a manifest of seven packages is in flight
C11_SecondBatchInFlight ==
    /\ allPc = "awaiting"
    /\ batchIndex = 5
    /\ Cardinality(inFlight) = 2
    /\ \A k \in 1..5 : entries[k] \in DOMAIN outcomes

\* C12: fetchAllPackages always returns; when it has, every package was
\* looked up exactly once and the map holds exactly the packages whose lookup
\* resolved to a result, each under its own name with its own result
C12_EveryLookupCounted ==
    /\ <>(allPc = "returned")
    /\ [](allPc = "returned" =>
            /\ \A name \in NamesOf(entries) : lookups[name] = 1
            /\ DOMAIN outcomes = NamesOf(entries)
            /\ DOMAIN results = { name \in NamesOf(entries) : IsSome(outcomes[name]) }
            /\ \A name \in DOMAIN results : results[name] = Get(outcomes[name])
            /\ \A name \in DOMAIN results : results[name].lookup = name)

\* the call returned after a lookup of the first batch failed and lookups on
\* both sides of it, in both batches, succeeded
C12_ReturnedAroundFailures ==
    /\ allPc = "returned"
    /\ Len(entries) > 5
    /\ outcomes[entries[2]] = None
    /\ IsSome(outcomes[entries[1]])
    /\ IsSome(outcomes[entries[3]])
    /\ outcomes[entries[6]] = None
    /\ DOMAIN results = NamesOf(entries) \ {entries[2], entries[6]}


----------------------------------------------------------------------------
(* The cache, src/cache.ts, and the request of fetchPackage,
   src/fetcher.ts lines 44-75 *)

\* the most fetchPackage calls of a run
MaxFetches == 3

\* fetcher.ts line 10
CACHE_VERSION == 1

\* String.prototype.replace with a string pattern replaces the first occurrence
ReplaceFirst(s, p, r) ==
    IF includes(s, p)
    THEN LET At(k) == SubSeq(s, 1, k - 1) \o r \o Slice(s, k + Len(p) - 1)
         IN At(IndexOf(s, p))
    ELSE s

\* fetcher.ts line 44
cacheKey(name) == ReplaceFirst(name, <<"/">>, <<"_">>)

\* cache.ts lines 30-35; an undefined property is left out by JSON.stringify
\* and read back as undefined, None stands for both
CacheEntry(timestamp, value, lastModified, etag) ==
    [timestamp |-> timestamp, value |-> value, lastModified |-> lastModified, etag |-> etag]

\* the values an argument in the place of meta takes: a number, or an object
\* with the properties lastModified and etag
NumberValue(n) == [type |-> "number", number |-> n]
MetaValue(lastModified, etag) ==
    [type |-> "object", lastModified |-> lastModified, etag |-> etag]

\* meta.lastModified and meta.etag; a property of a number is undefined
LastModifiedOf(meta) == IF meta.type = "object" THEN meta.lastModified ELSE None
EtagOf(meta) == IF meta.type = "object" THEN meta.etag ELSE None

\* a string that is not empty
NonEmpty(o) == IsSome(o) /\ Get(o) # ""

\* cache.ts lines 37-49: null when the file cannot be read
getCacheEntry(store, key) == IF key \in DOMAIN store THEN Some(store[key]) ELSE None

\* cache.ts lines 53-68, with Date.now() = time
setCache(store, key, value, meta, time) ==
    MapSet(store, key, CacheEntry(time, value, LastModifiedOf(meta), EtagOf(meta)))

\* a refresh that writes the value back with the default meta
TouchWithoutMeta(store, key, time) ==
    LET Touch(entry) ==
            IF IsSome(entry)
            THEN setCache(store, key, Get(entry).value, MetaValue(None, None), time)
            ELSE store
    IN Touch(getCacheEntry(store, key))

\* cache.ts lines 70-77
touchCache(store, key, time) ==
    LET Touch(entry) ==
            IF IsSome(entry)
            THEN setCache(store, key, Get(entry).value,
                          MetaValue(Get(entry).lastModified, Get(entry).etag), time)
            ELSE store
    IN Touch(getCacheEntry(store, key))

\* fetcher.ts line 68: response.headers.get('Last-Modified') || undefined
HeaderOrUndefined(header) == IF NonEmpty(header) THEN header ELSE None

\* fetcher.ts line 69: setCache(cacheKey, data, CACHE_VERSION, { lastModified }).
\* setCache has the parameters (key, value, meta): CACHE_VERSION is bound to
\* meta and the object that holds lastModified to no parameter
StoreResponse(store, key, data, lastModified, time) ==
    setCache(store, key, data, NumberValue(CACHE_VERSION), time)

\* fetcher.ts lines 24-26
PackagistResponse(name, list) == [packages |-> (name :> list)]

\* fetcher.ts line 75: data.packages?.[packageName] ?? []
VersionsOf(data, name) ==
    IF name \in DOMAIN data.packages THEN data.packages[name] ELSE <<>>

\* the packages looked up
CachePackages == { <<"a", "/", "b">>, <<"a", "/", "b", "_", "c">>, <<"a", "_", "b", "/", "c">> }

\* two versions of the registry
Release_1_5_0 ==
    PackagistVersion(<<"1",".","5",".","0">>, "2024-05-01", Some(Php_c8_0), AbandonedFor(Pkg_new))
Release_2_0_0 ==
    PackagistVersion(<<"2",".","0",".","0">>, "2024-06-01", Some(Php_c8_1), NotAbandoned)

\* the version lists the registry serves, before and after a release
ServerLists == { <<Release_1_5_0>>, <<Release_2_0_0, Release_1_5_0>> }

LastModifiedValues == { "Wed, 01 May 2024 00:00:00 GMT", "Sat, 01 Jun 2024 00:00:00 GMT" }

\* a rejected fetch, and a response with its status, parsed body and
\* Last-Modified header
NetworkError == [kind |-> "error"]
HttpResponse(status, data, lastModified) ==
    [kind |-> "response", status |-> status, data |-> data, lastModified |-> lastModified]

\* Response.ok
ok(resp) == resp.status \in 200..299

Responses(name) ==
    {NetworkError}
    \cup { HttpResponse(200, Some(PackagistResponse(name, list)), lastModified) :
             list \in ServerLists,
             lastModified \in {None, Some("")} \cup { Some(value) : value \in LastModifiedValues } }
    \cup { HttpResponse(304, None, None), HttpResponse(404, None, None) }

\* the cache directory at the start: empty, or with one entry written earlier
CacheStores ==
    {EmptyMap}
    \cup { cacheKey(name) :> CacheEntry(0, PackagistResponse(name, <<Release_1_5_0>>), None, None) :
             name \in CachePackages }
    \cup { cacheKey(name) :> CacheEntry(0, PackagistResponse(name, <<Release_1_5_0>>),
                                        Some("Wed, 01 May 2024 00:00:00 GMT"), Some("W/1")) :
             name \in CachePackages }

InitCache ==
    /\ NoFetch
    /\ NoCall
    /\ NoAll
    /\ packageName = <<>>
    /\ noCache = FALSE
    /\ cache \in CacheStores
    /\ now = 0
    /\ cachedEntry = None
    /\ headers = None
    /\ response = None
    /\ NoRun

\* fetcher.ts lines 44-54: the call, the read of the cache entry and the
\* header of the request
BeginFetch(name, bypass) ==
    /\ pc \in {"idle", "done"}
    /\ now < MaxFetches
    /\ packageName' = name
    /\ noCache' = bypass
    /\ LET Read(entry) ==
               /\ cachedEntry' = entry
               /\ headers' = IF IsSome(entry) /\ NonEmpty(Get(entry).lastModified)
                             THEN Get(entry).lastModified
                             ELSE None
       IN Read(IF bypass THEN None ELSE getCacheEntry(cache, cacheKey(name)))
    /\ response' = None
    /\ now' = now + 1
    /\ pc' = "requested"
    /\ versions' = <<>>
    /\ eligibleVersions' = <<>>
    /\ selectedVersion' = None
    /\ phpIncompatible' = FALSE
    /\ skippedVersion' = None
    /\ phpRequirement' = None
    /\ majorDetected' = None
    /\ result' = None
    /\ UNCHANGED <<minStability, preferStable, currentVersion, allowMajor, projectPhp,
                   cache, call, all, cli>>

\* a handler that stores the response whatever noCache says
RespondAndStore(resp) ==
    /\ pc = "requested"
    /\ response' = Some(resp)
    /\ LET Parsed(data) ==
               /\ versions' = VersionsOf(data, packageName)
               /\ pc' = "fetched"
               /\ UNCHANGED result
           Failed ==
               /\ Return(None)
               /\ UNCHANGED <<versions, cache>>
       IN IF resp.kind = "error"
          THEN Failed
          ELSE IF resp.status = 304 /\ IsSome(cachedEntry)
          THEN /\ cache' = touchCache(cache, cacheKey(packageName), now)
               /\ Parsed(Get(cachedEntry).value)
          ELSE IF ok(resp)
          THEN /\ cache' = StoreResponse(cache, cacheKey(packageName), Get(resp.data),
                                         HeaderOrUndefined(resp.lastModified), now)
               /\ Parsed(Get(resp.data))
          ELSE Failed
    /\ UNCHANGED <<minStability, preferStable, currentVersion, allowMajor, projectPhp,
                   eligibleVersions, selectedVersion, phpIncompatible, skippedVersion,
                   phpRequirement, majorDetected,
                   packageName, noCache, now, cachedEntry, headers, call, all, cli>>

\* fetcher.ts lines 58-75 and the catch of line 191: the response, the update
\* of the cache and the version list
Respond(resp) ==
    /\ pc = "requested"
    /\ response' = Some(resp)
    /\ LET Parsed(data) ==
               /\ versions' = VersionsOf(data, packageName)
               /\ pc' = "fetched"
               /\ UNCHANGED result
           Failed ==
               /\ Return(None)
               /\ UNCHANGED <<versions, cache>>
       IN IF resp.kind = "error"
          THEN Failed
          ELSE IF resp.status = 304 /\ IsSome(cachedEntry)
          THEN /\ cache' = touchCache(cache, cacheKey(packageName), now)
               /\ Parsed(Get(cachedEntry).value)
          ELSE IF ok(resp)
          THEN /\ cache' = IF noCache
                           THEN cache
                           ELSE StoreResponse(cache, cacheKey(packageName), Get(resp.data),
                                              HeaderOrUndefined(resp.lastModified), now)
               /\ Parsed(Get(resp.data))
          ELSE Failed
    /\ UNCHANGED <<minStability, preferStable, currentVersion, allowMajor, projectPhp,
                   eligibleVersions, selectedVersion, phpIncompatible, skippedVersion,
                   phpRequirement, majorDetected,
                   packageName, noCache, now, cachedEntry, headers, call, all, cli>>

NextCache ==
    \/ \E name \in CachePackages : \E bypass \in BOOLEAN : BeginFetch(name, bypass)
    \/ \E resp \in Responses(packageName) : Respond(resp)
    \/ SelectPreferred
    \/ CheckPhp
    \/ CheckMajor
    \/ Annotate

SpecCache == InitCache /\ [][NextCache]_vars


\* the step in which a response with the given status arrives
Received(status) ==
    /\ pc = "requested"
    /\ response' # None
    /\ Get(response').kind = "response"
    /\ Get(response').status = status

\* C13: when a 304 arrives and the call has read a cache entry, selection
\* runs over the version list of the cached value and the entry keeps its
\* value, lastModified and etag, with the timestamp of the call, every other
\* entry staying as it was; when the call has no cache entry, a 304 makes
\* it return null and leaves the cache alone
C13_NotModifiedKeepsEntry ==
    [][Received(304) =>
         IF IsSome(cachedEntry)
         THEN /\ pc' = "fetched"
              /\ versions' = VersionsOf(Get(cachedEntry).value, packageName)
              /\ DOMAIN cache' = DOMAIN cache
              /\ cache'[cacheKey(packageName)].value = cache[cacheKey(packageName)].value
              /\ cache'[cacheKey(packageName)].lastModified
                     = cache[cacheKey(packageName)].lastModified
              /\ cache'[cacheKey(packageName)].etag = cache[cacheKey(packageName)].etag
              /\ cache'[cacheKey(packageName)].timestamp = now
              /\ \A key \in DOMAIN cache \ {cacheKey(packageName)} : cache'[key] = cache[key]
         ELSE /\ pc' = "done"
              /\ result' = None
              /\ cache' = cache]_vars

\* a 304 has refreshed an entry that holds a Last-Modified value, and the
\* cached version list is up for selection
C13_EntryRefreshed ==
    /\ pc = "fetched"
    /\ response # None
    /\ Get(response).kind = "response"
    /\ Get(response).status = 304
    /\ IsSome(cachedEntry)
    /\ Len(versions) > 0
    /\ versions = VersionsOf(Get(cachedEntry).value, packageName)
    /\ IsSome(cache[cacheKey(packageName)].lastModified)
    /\ cache[cacheKey(packageName)].timestamp = now
    /\ Get(cachedEntry).timestamp < now

\* C14: when a cache-enabled fetch of a package follows a cache-enabled fetch
\* of the same package that received a 200 with a Last-Modified header, the
\* cache entry holds the body and the Last-Modified value of that response,
\* and the new request sends the value as If-Modified-Since
C14_ConditionalRefetch ==
    [][(/\ pc = "done"
        /\ pc' = "requested"
        /\ ~noCache
        /\ ~noCache'
        /\ packageName' = packageName
        /\ response # None
        /\ Get(response).kind = "response"
        /\ Get(response).status = 200
        /\ NonEmpty(Get(response).lastModified))
       => /\ cacheKey(packageName) \in DOMAIN cache
          /\ cache[cacheKey(packageName)].value = Get(Get(response).data)
          /\ cache[cacheKey(packageName)].lastModified = Get(response).lastModified
          /\ headers' = Get(response).lastModified]_vars


----------------------------------------------------------------------------
(* run, src/index.ts, with writeComposerJson and runComposerUpdate of
   src/writer.ts and selectPackages of src/interactive.ts *)

\* the most dependencies of the manifest
MaxRequired == 3

Name_a_b == <<"a", "/", "b">>
Name_php == <<"p", "h", "p">>
Name_a_b_c == <<"a", "/", "b", "_", "c">>
Name_ext == <<"e", "x", "t", "-", "j", "s", "o", "n">>

\* the dependencies of the manifest, as name and constraint, in file order
Dependencies ==
    << <<Name_a_b, <<"^", "1", ".", "0">> >>,
       <<Name_php, Php_c8_0>>,
       <<Name_a_b_c, <<"~", "1", ".", "0">> >>,
       <<Name_ext, <<"*">> >> >>

\* a manifest with the first n dependencies: two under require, the rest
\* under require-dev, and no minimum-stability or prefer-stable key
Manifest(n) ==
    [require |-> SubSeq(Dependencies, 1, IF n < 2 THEN n ELSE 2),
     requireDev |-> SubSeq(Dependencies, 3, n)]

Manifests == {None} \cup { Some(Manifest(n)) : n \in 0..MaxRequired }

CLIOptions ==
    [write : BOOLEAN, install : BOOLEAN, interactive : BOOLEAN, major : BOOLEAN,
     minor : BOOLEAN, patch : BOOLEAN, exclude : {<<>>, <<Name_a_b_c>>},
     dryRun : BOOLEAN, noCache : {FALSE}]

\* the FetchResult of a lookup, with the fields run decides on
LookupResults ==
    { [latestVersion |-> <<"2", ".", "0", ".", "0">>, majorVersion |-> None],
      [latestVersion |-> <<"1", ".", "5", ".", "0">>,
       majorVersion |-> Some(<<"2", ".", "0", ".", "0">>)],
      [latestVersion |-> <<"1", ".", "0", ".", "5">>, majorVersion |-> None],
      [latestVersion |-> <<"1", ".", "0", ".", "0">>, majorVersion |-> None] }

\* array.includes
Contains(seq, x) == \E k \in 1..Len(seq) : seq[k] = x

\* index.ts lines 174-179
RECURSIVE FilterPackages(_, _)
FilterPackages(pairs, exclude) ==
    IF pairs = <<>> THEN <<>>
    ELSE IF \/ pairs[1][1] = Name_php
            \/ startsWith(pairs[1][1], <<"e", "x", "t", "-">>)
            \/ Contains(exclude, pairs[1][1])
    THEN FilterPackages(Tail(pairs), exclude)
    ELSE <<pairs[1]>> \o FilterPackages(Tail(pairs), exclude)

\* a filter that lets every diff type of a major update through
ListedWhatever(diffType, opts) ==
    /\ diffType # "null"
    /\ ~(diffType = "minor" /\ ~opts.minor)
    /\ ~(diffType = "patch" /\ ~opts.patch)

\* index.ts lines 208-212
Listed(diffType, opts) ==
    /\ diffType # "null"
    /\ ~(diffType = "major" /\ ~opts.major)
    /\ ~(diffType = "minor" /\ ~opts.minor)
    /\ ~(diffType = "patch" /\ ~opts.patch)

\* index.ts lines 214-228; the fields that are copied from the result to the
\* table (release time, age, PHP requirement, deprecation) are left out
PackageInfo(name, current, found, diffType, opts) ==
    [name |-> name, currentVersion |-> current, latestVersion |-> found.latestVersion,
     diffType |-> diffType,
     majorAvailable |-> IF ~opts.major /\ Truthy(found.majorVersion)
                        THEN found.majorVersion ELSE None]

\* index.ts lines 195-229: fetched maps a name to None or Some(result)
RECURSIVE CollectUpdates(_, _, _)
CollectUpdates(pairs, fetched, opts) ==
    IF pairs = <<>> THEN <<>>
    ELSE LET Rest == CollectUpdates(Tail(pairs), fetched, opts)
             Entry(name, current, found) ==
                 IF found = None THEN Rest
                 ELSE IF Listed(getDiffType(current, Get(found).latestVersion), opts)
                 THEN <<PackageInfo(name, current, Get(found),
                                    getDiffType(current, Get(found).latestVersion), opts)>>
                      \o Rest
                 ELSE Rest
         IN Entry(pairs[1][1], pairs[1][2], fetched[pairs[1][1]])

RECURSIVE OfDiffType(_, _)
OfDiffType(seq, diffType) ==
    IF seq = <<>> THEN <<>>
    ELSE IF seq[1].diffType = diffType THEN <<seq[1]>> \o OfDiffType(Tail(seq), diffType)
    ELSE OfDiffType(Tail(seq), diffType)

\* index.ts lines 231-232: a stable sort on major, minor, patch
SortUpdates(seq) ==
    OfDiffType(seq, "major") \o OfDiffType(seq, "minor") \o OfDiffType(seq, "patch")

\* interactive.ts lines 29-30
RECURSIVE FilterSelected(_, _)
FilterSelected(seq, names) ==
    IF seq = <<>> THEN <<>>
    ELSE IF seq[1].name \in names THEN <<seq[1]>> \o FilterSelected(Tail(seq), names)
    ELSE FilterSelected(Tail(seq), names)

\* interactive.ts lines 9-31: selected is response.selected, None when the
\* prompt was cancelled
selectPackages(seq, selected) ==
    IF Len(seq) = 0 THEN <<>>
    ELSE IF selected = None THEN <<>>
    ELSE FilterSelected(seq, Get(selected))

\* a writer that adds the updated package to a map that does not hold it
RECURSIVE ApplyOrAdd(_, _)
ApplyOrAdd(pairs, upds) ==
    IF upds = <<>> THEN pairs
    ELSE IF \E k \in 1..Len(pairs) : pairs[k][1] = upds[1].name
    THEN ApplyOrAdd([k \in 1..Len(pairs) |->
                        IF pairs[k][1] = upds[1].name
                        THEN <<pairs[k][1],
                               formatNewVersion(pairs[k][2], upds[1].latestVersion)>>
                        ELSE pairs[k]],
                    Tail(upds))
    ELSE ApplyOrAdd(Append(pairs, <<upds[1].name, upds[1].latestVersion>>), Tail(upds))

\* writer.ts lines 41-50 on one dependency map
RECURSIVE ApplyUpdates(_, _)
ApplyUpdates(pairs, upds) ==
    IF upds = <<>> THEN pairs
    ELSE ApplyUpdates([k \in 1..Len(pairs) |->
                          IF pairs[k][1] = upds[1].name
                          THEN <<pairs[k][1],
                                 formatNewVersion(pairs[k][2], upds[1].latestVersion)>>
                          ELSE pairs[k]],
                      Tail(upds))

WriteResult(returned, file, wrote) == [returned |-> returned, file |-> file, wrote |-> wrote]

\* a writer that does not look at dryRun
WriteAlways(file, upds, dryRun, writeOk) ==
    IF file = None THEN WriteResult(FALSE, file, FALSE)
    ELSE IF writeOk
    THEN WriteResult(TRUE,
                     Some([Get(file) EXCEPT
                               !.require = ApplyUpdates(Get(file).require, upds),
                               !.requireDev = ApplyUpdates(Get(file).requireDev, upds)]),
                     TRUE)
    ELSE WriteResult(FALSE, file, FALSE)

\* writer.ts lines 31-68: the value returned, the file afterwards and whether
\* writeFile was called; writeOk tells whether writeFile succeeds
writeComposerJson(file, upds, dryRun, writeOk) ==
    IF file = None THEN WriteResult(FALSE, file, FALSE)
    ELSE IF dryRun THEN WriteResult(TRUE, file, FALSE)
    ELSE IF writeOk
    THEN WriteResult(TRUE,
                     Some([Get(file) EXCEPT
                               !.require = ApplyUpdates(Get(file).require, upds),
                               !.requireDev = ApplyUpdates(Get(file).requireDev, upds)]),
                     TRUE)
    ELSE WriteResult(FALSE, file, TRUE)

InitRun ==
    /\ NoFetch
    /\ NoCall
    /\ NoAll
    /\ NoHttp
    /\ options \in CLIOptions
    /\ composerJson \in Manifests
    /\ runPc = "start"
    /\ filteredPackages = <<>>
    /\ fetchArgs = None
    /\ runResults = EmptyMap
    /\ updates = <<>>
    /\ selectedUpdates = <<>>
    /\ success = None
    /\ writes = 0
    /\ installs = 0
    /\ exitCode = None

\* index.ts lines 155-190: the manifest is read and fetchAllPackages called
RunStart ==
    /\ runPc = "start"
    /\ IF composerJson = None
       THEN /\ exitCode' = Some(1)
            /\ runPc' = "exited"
            /\ UNCHANGED <<filteredPackages, fetchArgs>>
       ELSE /\ filteredPackages' =
                   FilterPackages(Get(composerJson).require \o Get(composerJson).requireDev,
                                  options.exclude)
            /\ fetchArgs' = Some([minStability |-> "stable", preferStable |-> TRUE,
                                  allowMajor |-> options.major, noCache |-> options.noCache,
                                  projectPhp |-> None])
            /\ runPc' = "fetching"
            /\ UNCHANGED exitCode
    /\ UNCHANGED <<options, composerJson, runResults, updates, selectedUpdates, success, writes,
                   installs, exceptRun>>

\* index.ts lines 192-246: fetchAllPackages has returned the map fetched
RunFetched(fetched) ==
    /\ runPc = "fetching"
    /\ runResults' = fetched
    /\ LET Show(upds) ==
               /\ updates' = upds
               /\ IF Len(upds) = 0
                  THEN /\ runPc' = "returned"
                       /\ UNCHANGED selectedUpdates
                  ELSE IF options.interactive
                  THEN /\ runPc' = "selecting"
                       /\ UNCHANGED selectedUpdates
                  ELSE /\ runPc' = "selected"
                       /\ selectedUpdates' = upds
       IN Show(SortUpdates(CollectUpdates(filteredPackages, fetched, options)))
    /\ UNCHANGED <<options, composerJson, filteredPackages, fetchArgs, success, writes,
                   installs, exitCode, exceptRun>>

\* index.ts lines 241-245: the prompt has been answered
RunSelect(selected) ==
    /\ runPc = "selecting"
    /\ selectedUpdates' = selectPackages(updates, selected)
    /\ runPc' = IF Len(selectPackages(updates, selected)) = 0 THEN "returned" ELSE "selected"
    /\ UNCHANGED <<options, composerJson, filteredPackages, fetchArgs, runResults, updates,
                   success, writes, installs, exitCode, exceptRun>>

\* index.ts lines 248-258
RunWrite(writeOk) ==
    /\ runPc = "selected"
    /\ IF options.write \/ options.install
       THEN LET Written(written) ==
                    /\ success' = Some(written.returned)
                    /\ composerJson' = written.file
                    /\ writes' = IF written.wrote THEN writes + 1 ELSE writes
            IN Written(writeComposerJson(composerJson, selectedUpdates, options.dryRun,
                                         writeOk))
       ELSE UNCHANGED <<success, composerJson, writes>>
    /\ runPc' = "written"
    /\ UNCHANGED <<options, filteredPackages, fetchArgs, runResults, updates,
                   selectedUpdates, installs, exitCode, exceptRun>>

\* index.ts lines 260-274, with runComposerUpdate of writer.ts lines 74-90
RunInstall(installed) ==
    /\ runPc = "written"
    /\ IF options.install /\ ~options.dryRun
       THEN /\ installs' = installs + 1
            /\ IF installed
               THEN /\ runPc' = "returned"
                    /\ UNCHANGED exitCode
               ELSE /\ runPc' = "exited"
                    /\ exitCode' = Some(1)
       ELSE /\ runPc' = "returned"
            /\ UNCHANGED <<installs, exitCode>>
    /\ UNCHANGED <<options, composerJson, filteredPackages, fetchArgs, runResults, updates,
                   selectedUpdates, success, writes, exceptRun>>

\* the maps fetchAllPackages may return for the packages looked up
FetchedMaps(pairs) ==
    [ { pairs[k][1] : k \in 1..Len(pairs) } ->
        {None} \cup { Some(found) : found \in LookupResults } ]

\* the answers of the prompt
Selections(seq) == {None} \cup { Some(names) : names \in SUBSET { seq[k].name : k \in 1..Len(seq) } }

NextRun ==
    \/ RunStart
    \/ \E fetched \in FetchedMaps(filteredPackages) : RunFetched(fetched)
    \/ \E selected \in Selections(updates) : RunSelect(selected)
    \/ \E writeOk \in BOOLEAN : RunWrite(writeOk)
    \/ \E installed \in BOOLEAN : RunInstall(installed)

SpecRun == InitRun /\ [][NextRun]_vars


\* the dependencies of the manifest file, require before require-dev
DependenciesOf(file) == IF file = None THEN <<>> ELSE Get(file).require \o Get(file).requireDev

\* C15: in a dry run no step writes composer.json, changes its content or
\* spawns composer update, whatever the write, install and interactive flags
\* are, and writeComposerJson, called on the readable manifest, returns true
C15_DryRunWritesNothing ==
    [][options.dryRun =>
         /\ composerJson' = composerJson
         /\ writes' = writes
         /\ installs' = installs
         /\ (runPc = "selected" /\ (options.write \/ options.install) /\ composerJson # None)
                => success' = Some(TRUE)]_vars

\* a dry run with install set has gone through writeComposerJson with an
\* update that would change a constraint, and has returned
C15_DryRunWithInstall ==
    /\ options.dryRun
    /\ options.install
    /\ runPc = "returned"
    /\ success = Some(TRUE)
    /\ Len(selectedUpdates) > 0
    /\ \E k \in 1..Len(DependenciesOf(composerJson)) :
           \E n \in 1..Len(selectedUpdates) :
               /\ DependenciesOf(composerJson)[k][1] = selectedUpdates[n].name
               /\ formatNewVersion(DependenciesOf(composerJson)[k][2],
                                   selectedUpdates[n].latestVersion)
                      # DependenciesOf(composerJson)[k][2]
    /\ writes = 0
    /\ installs = 0

----------------------------------------------------------------------------
(* Calls of checkPhpCompatibility on its own, src/utils/php.ts lines 167-205.
   The inputs are written with their meaning next to their text: the bounds
   of each alternative of a package requirement, with a version padded to
   three components, and the minimum of a project constraint *)

\* one OR-alternative: its text, the operator and version of its lower bound
\* ("" and <<>> when it has none) and of its upper bound
Alternative(text, lowerOp, lower, upperOp, upper) ==
    [text |-> text, lowerOp |-> lowerOp, lower |-> lower, upperOp |-> upperOp, upper |-> upper]

Alternatives ==
    { Alternative(<<"^", "8", ".", "0">>, "^", <<8, 0, 0>>, "", <<>>),
      Alternative(<<"^", "7", ".", "4">>, "^", <<7, 4, 0>>, "", <<>>),
      Alternative(<<">", "=", "8", ".", "1">>, ">=", <<8, 1, 0>>, "", <<>>),
      Alternative(<<"<", "8", ".", "4">>, "", <<>>, "<", <<8, 4, 0>>),
      Alternative(<<"<", "=", "8", ".", "4">>, "", <<>>, "<=", <<8, 4, 0>>),
      Alternative(<<">", "=", "7", ".", "4", " ", "<", "8", ".", "4">>, ">=", <<7, 4, 0>>, "<", <<8, 4, 0>>),
      Alternative(<<">", "=", "7", ".", "4", ",", " ", "<", "=", "8", ".", "4">>, ">=", <<7, 4, 0>>, "<=", <<8, 4, 0>>),
      Alternative(<<"^", "7", ".", "2", ".", "5", " ", "<", "8", ".", "4">>, "^", <<7, 2, 5>>, "<", <<8, 4, 0>>),
      Alternative(<<"^", "8", ".", "0", ",", "<", "=", "8", ".", "5">>, "^", <<8, 0, 0>>, "<=", <<8, 5, 0>>) }

OrSeparators == { <<"|">>, <<"|", "|">>, <<" ", "|", "|", " ">> }

\* a package requirement: its text and its alternatives
PackageInput(text, alternatives) == [text |-> text, alternatives |-> alternatives]

PackageInputs ==
    { PackageInput(<<>>, <<>>), PackageInput(Str_star, <<>>),
      PackageInput(Php_cMaxSafe,
                   << [text |-> Php_cMaxSafe, lowerOp |-> "^", lower |-> <<>>,
                       upperOp |-> "", upper |-> <<>>] >>) }
    \cup { PackageInput(a.text, <<a>>) : a \in Alternatives }
    \cup { PackageInput(a.text \o sep \o b.text, <<a, b>>) :
             a \in Alternatives, b \in Alternatives, sep \in OrSeparators }

\* a project constraint: its text and its minimum, <<>> when it has none
ProjectInput(text, minimum) == [text |-> text, minimum |-> minimum]

ProjectInputs ==
    { ProjectInput(<<>>, <<>>),
      ProjectInput(<<"*">>, <<>>),
      ProjectInput(<<"a", "b", "c">>, <<>>),
      ProjectInput(<<"^", "8", ".", "0">>, <<8, 0, 0>>),
      ProjectInput(<<"^", "8", ".", "4">>, <<8, 4, 0>>),
      ProjectInput(<<">", "=", "8", ".", "5">>, <<8, 5, 0>>),
      ProjectInput(<<"^", "7", ".", "4", " ", "|", "|", " ", "^", "8", ".", "0">>, <<7, 4, 0>>),
      ProjectInput(<<"8", ".", "4", ".", "1">>, <<8, 4, 1>>),
      ProjectInput(<<"^", "9", ".", "0">>, <<9, 0, 0>>) }

InitPhp ==
    /\ NoFetch
    /\ NoAll
    /\ NoHttp
    /\ NoRun
    /\ callee = "checkPhpCompatibility"
    /\ callArgs \in { <<project.text, package.text>> :
                        project \in ProjectInputs, package \in PackageInputs }
    /\ callResult = None

\* lines 167-205
CallCheckPhpCompatibility ==
    /\ callee = "checkPhpCompatibility"
    /\ callResult = None
    /\ callResult' = Some(checkPhpCompatibility(callArgs[1], callArgs[2]))
    /\ UNCHANGED <<exceptCall, callee, callArgs>>

NextPhp == CallCheckPhpCompatibility

SpecPhp == InitPhp /\ [][NextPhp]_vars

\* the inputs of the call under way
ProjectOfCall == CHOOSE project \in ProjectInputs : project.text = callArgs[1]
PackageOfCall == CHOOSE package \in PackageInputs : package.text = callArgs[2]

\* a <= b on versions of three components
VersionLE(a, b) ==
    \/ a[1] < b[1]
    \/ a[1] = b[1] /\ a[2] < b[2]
    \/ a[1] = b[1] /\ a[2] = b[2] /\ a[3] <= b[3]

\* the version lies within the bounds of the alternative: at or above the
\* lower bound, below the next major of a caret, below a < bound and at or
\* below a <= bound
Within(version, alternative) ==
    /\ alternative.lower # <<>>
           => VersionLE(alternative.lower, version)
    /\ (alternative.lowerOp = "^" /\ alternative.lower # <<>>)
           => version[1] = alternative.lower[1]
    /\ alternative.upperOp = "<"
           => ~VersionLE(alternative.upper, version)
    /\ alternative.upperOp = "<="
           => VersionLE(version, alternative.upper)
    /\ alternative.lower # <<>> \/ alternative.upper # <<>>

\* the implied maximum of an alternative: its explicit bound, or the next
\* major of a caret; <<>> when it has neither
ImpliedMaximum(alternative) ==
    IF alternative.upper # <<>> THEN alternative.upper
    ELSE IF alternative.lowerOp = "^" /\ alternative.lower # <<>>
    THEN <<alternative.lower[1] + 1, 0, 0>>
    ELSE <<>>

CheckReturned == callee = "checkPhpCompatibility" /\ callResult # None

\* C17: when the minimum of the project constraint lies within the bounds of
\* an alternative of the package requirement, checkPhpCompatibility returns
\* satisfied
C17_NoFalseRejection ==
    (/\ CheckReturned
     /\ ProjectOfCall.minimum # <<>>
     /\ \E k \in 1..Len(PackageOfCall.alternatives) :
            Within(ProjectOfCall.minimum, PackageOfCall.alternatives[k]))
    => /\ ~Get(callResult).threw
       /\ Get(callResult).satisfied

C19_FailsOpen ==
    (/\ CheckReturned
     /\ \/ callArgs[2] = <<>>
        \/ callArgs[2] = Str_star
        \/ callArgs[1] = <<>>
        \/ ProjectOfCall.minimum = <<>>)
    => /\ ~Get(callResult).threw
       /\ Get(callResult).satisfied
       /\ Get(callResult).reason = None

\* a project constraint without a version met a requirement it could not meet
\* otherwise
C19_NoMinimumAccepted ==
    /\ CheckReturned
    /\ callArgs[1] = <<"a", "b", "c">>
    /\ callArgs[2] = <<"<", "8", ".", "4">>
    /\ Get(callResult).satisfied
    /\ Get(callResult).reason = None

\* the minimum written next to each project constraint is the one
\* extractMinVersion finds
ProjectMinimumsAgree ==
    \A project \in ProjectInputs :
        IF project.minimum = <<>> THEN extractMinVersion(project.text) = None
        ELSE /\ extractMinVersion(project.text) # None
             /\ \A k \in 1..3 :
                    DotSplit(Get(extractMinVersion(project.text)))[k]
                        = <<Digits[project.minimum[k] + 1]>>


----------------------------------------------------------------------------
(* Calls of the functions of src/utils/version.ts and src/utils/php.ts on
   strings of every constraint pattern and of none *)

UtilityStrings ==
    { <<>>,
      <<"a", "b", "c">>,
      <<"n", "o", "t", "-", "a", "-", "v", "e", "r", "s", "i", "o", "n">>,
      <<"1", ".", "0", ".", "0">>,
      <<"v", "2", ".", "1", ".", "3">>,
      <<"^", "1", ".", "2">>,
      <<"~", "1", ".", "2">>,
      <<"1", ".", "*">>,
      <<"1", ".", "2", ".", "*">>,
      <<"d", "e", "v", "-", "m", "a", "i", "n">>,
      <<"1", ".", "0", ".", "x", "-", "d", "e", "v">>,
      <<"1", ".", "0", " ", "-", " ", "2", ".", "0">>,
      <<">", "=", "1", ".", "0">>,
      <<"d", "e", "v", "-", "m", "a", "i", "n", " ", "a", "s", " ", "1", ".", "0", ".", "x", "-", "d", "e", "v">>,
      <<"1", ".", "0", ".", "0", "-", "b", "e", "t", "a", "1">>,
      <<"^">>,
      <<"!", "=">>,
      <<"*">>,
      <<"1", ".", "2", ".", "3", ".", "*">>,
      <<"^", "1", ".", "0", "-", "d", "e", "v">>,
      <<"~", "1", ".", "0", "-", "d", "e", "v">>,
      <<"1", ".", "*", "-", "d", "e", "v">>,
      <<"^", "1", ".", "*">>,
      <<"1", ".", "0", ".", "0", "-", "R", "C", "1">>,
      <<"1", ".", "*", "@", "b", "e", "t", "a">>,
      <<"1", ".", "0", "-", "b", "e", "t", "a", " ", "-", " ", "2", ".", "0">>,
      <<">", "=", "1", ".", "0", "@", "b", "e", "t", "a">>,
      <<"1", ".", "0", ".", "0", "@", "d", "e", "v">> }

\* the project constraints and package requirements of the calls of
\* checkPhpCompatibility
UtilityPhps ==
    { <<>>, Str_star, <<"a", "b", "c">>, Php_c8_0, Php_c7_4, Php_8_0_0, Php_cMaxSafe,
      <<">", "=", "7", ".", "4", " ", "<", "8", ".", "0">> }

\* constraints that more than one pattern of parseConstraint matches
OverlapStrings ==
    { <<"~", "1", ".", "*">>,
      <<"1", ".", "*", " ", "-", " ", "2", ".", "0">>,
      <<">", "=", "1", ".", "0", " ", "-", " ", "2", ".", "0">>,
      <<">", "=", "1", ".", "*">>,
      <<"d", "e", "v", "-", "1", ".", "0", " ", "a", "s", " ", "2", ".", "0">>,
      <<"d", "e", "v", "-", "1", ".", "x", "-", "d", "e", "v">>,
      <<" ", "^", "1", ".", "0", " ">>,
      <<"^", "1", ".", "0", " ", "-", " ", "2", ".", "0">>,
      <<"~", "v", "1", ".", "2", "@", "s", "t", "a", "b", "l", "e">> }

UtilityCalls ==
    { <<"parseConstraint", <<a>> >> : a \in UtilityStrings \cup OverlapStrings }
    \cup { <<"getVersionStability", <<a>> >> : a \in UtilityStrings }
    \cup { <<"getDiffType", <<a, b>> >> : a \in UtilityStrings, b \in UtilityStrings }
    \cup { <<"formatNewVersion", <<a, b>> >> : a \in UtilityStrings, b \in UtilityStrings }
    \cup { <<"checkPhpCompatibility", <<a, b>> >> : a \in UtilityPhps, b \in UtilityPhps }

InitUtils ==
    /\ NoFetch
    /\ NoAll
    /\ NoHttp
    /\ NoRun
    /\ \E c \in UtilityCalls : callee = c[1] /\ callArgs = c[2]
    /\ callResult = None

\* version.ts lines 23-98
CallParseConstraint ==
    /\ callee = "parseConstraint"
    /\ callResult = None
    /\ callResult' = Some(parseConstraint(callArgs[1]))
    /\ UNCHANGED <<exceptCall, callee, callArgs>>

\* version.ts lines 142-158
CallGetVersionStability ==
    /\ callee = "getVersionStability"
    /\ callResult = None
    /\ callResult' = Some(getVersionStability(callArgs[1]))
    /\ UNCHANGED <<exceptCall, callee, callArgs>>

\* version.ts lines 230-261
CallFormatNewVersion ==
    /\ callee = "formatNewVersion"
    /\ callResult = None
    /\ callResult' = Some(formatNewVersion(callArgs[1], callArgs[2]))
    /\ UNCHANGED <<exceptCall, callee, callArgs>>

NextUtils ==
    \/ CallParseConstraint
    \/ CallGetVersionStability
    \/ CallGetDiffType
    \/ CallFormatNewVersion
    \/ CallCheckPhpCompatibility

SpecUtils == InitUtils /\ [][NextUtils]_vars

\* strings of no constraint pattern
UnpatternedStrings == { <<>>, <<"a", "b", "c">>, <<"n", "o", "t", "-", "a", "-", "v", "e", "r", "s", "i", "o", "n">>, <<"1", ".", "0", ".", "0">> }

\* strings normalizeVersion has no version for
UnnormalizableStrings == { <<>>, <<"a", "b", "c">>, <<"n", "o", "t", "-", "a", "-", "v", "e", "r", "s", "i", "o", "n">>, <<"d", "e", "v", "-", "m", "a", "i", "n">> }

\* C20: every call of parseConstraint, getVersionStability, getDiffType,
\* formatNewVersion and checkPhpCompatibility returns a value and does not
\* throw; a string of no pattern parses as exact; getDiffType returns null
\* when one of its arguments cannot be normalized
C20_Totality ==
    callResult # None =>
        /\ callee = "checkPhpCompatibility" => ~Get(callResult).threw
        /\ (callee = "parseConstraint" /\ callArgs[1] \in UnpatternedStrings)
               => Get(callResult).type = "exact"
        /\ (callee = "getDiffType" /\ (\/ callArgs[1] \in UnnormalizableStrings
                                        \/ callArgs[2] \in UnnormalizableStrings))
               => Get(callResult) = "null"

\* the part of C20 that is not about checkPhpCompatibility
TotalityOfVersionCalls ==
    (callResult # None /\ callee # "checkPhpCompatibility") => C20_Totality

\* the original constraint and the new version of a returned call of
\* formatNewVersion
FormatReturned == callee = "formatNewVersion" /\ callResult # None
FormatOriginal == callArgs[1]
FormatVersion == callArgs[2]

\* C21: when getDiffType has no diff between a constraint and a version, it
\* has none either between the constraint formatNewVersion writes for that
\* version and the same version, whatever the kind of the constraint
C21_ReformatKeepsNoDiff ==
    (FormatReturned /\ getDiffType(FormatOriginal, FormatVersion) = "null")
        => getDiffType(Get(callResult), FormatVersion) = "null"

\* the prefix each of the three prefixed kinds is written with
PrefixOfKind(type) ==
    IF type = "caret" THEN <<"^">> ELSE IF type = "tilde" THEN <<"~">> ELSE <<>>

\* a version without its one leading v or V
WithoutLeadingV(version) ==
    IF Len(version) > 0 /\ version[1] \in {"v", "V"}
    THEN SubSeq(version, 2, Len(version))
    ELSE version

\* C22: for an original constraint that parses as caret, tilde or exact,
\* formatNewVersion returns the prefix of that kind ('^', '~' or nothing)
\* followed by the new version without one leading v or V
C22_StylePreserved ==
    (FormatReturned /\ parseConstraint(FormatOriginal).type \in {"caret", "tilde", "exact"})
        => Get(callResult) = PrefixOfKind(parseConstraint(FormatOriginal).type)
                                 \o WithoutLeadingV(FormatVersion)

\* a tilde constraint was reformatted for a version written with a leading v
C22_TildeKeptForPrefixedVersion ==
    /\ FormatReturned
    /\ FormatOriginal = <<"~", "1", ".", "2">>
    /\ FormatVersion = <<"v", "2", ".", "1", ".", "3">>
    /\ Get(callResult) = <<"~", "2", ".", "1", ".", "3">>


----------------------------------------------------------------------------
(* Calls of writeComposerJson, src/writer.ts lines 31-68, on manifests with
   a package under both require and require-dev, with dev constraints and
   with a key besides the two dependency maps; an absent dependency map is
   written as the empty one *)

\* the most updates of one call
MaxUpdates == 2

Name_c_d == <<"c", "/", "d">>
Name_e_f == <<"e", "/", "f">>
Name_x_y == <<"x", "/", "y">>

Constraint_devMain == <<"d", "e", "v", "-", "m", "a", "i", "n">>
Constraint_xDev == <<"1", ".", "0", ".", "x", "-", "d", "e", "v">>
Constraint_alias == <<"d", "e", "v", "-", "m", "a", "i", "n", " ", "a", "s", " ", "1", ".", "0", ".", "x", "-", "d", "e", "v">>
Constraint_caretDev == <<"^", "1", ".", "0", "-", "d", "e", "v">>

\* the require maps of the manifests, as name and constraint in file order
RequireMaps ==
    { <<>>,
      << <<Name_a_b, <<"^", "1", ".", "0">> >> >>,
      << <<Name_a_b, <<"^", "1", ".", "0">> >>, <<Name_c_d, Constraint_devMain>>,
         <<Name_php, Php_c8_0>> >>,
      << <<Name_c_d, Constraint_alias>>, <<Name_e_f, <<"1", ".", "2", ".", "*">> >> >> }

\* the require-dev maps of the manifests
RequireDevMaps ==
    { <<>>,
      << <<Name_a_b, <<"~", "1", ".", "0">> >>, <<Name_e_f, Constraint_xDev>> >>,
      << <<Name_c_d, Constraint_caretDev>>, <<Name_a_b, <<">", "=", "1", ".", "0">> >> >> }

\* the manifests writeComposerJson reads: None when the file does not exist,
\* cannot be read or is not JSON
WriteManifests ==
    {None} \cup
    { Some([name |-> Name_x_y, require |-> req, requireDev |-> dev]) :
          req \in RequireMaps, dev \in RequireDevMaps }

\* the fields of PackageInfo that writeComposerJson reads
WriteUpdates ==
    [name : {Name_a_b, Name_c_d, Name_e_f, Name_x_y},
     latestVersion : { <<"2", ".", "1", ".", "3">>, <<"v", "3", ".", "0", ".", "0">> }]

UpdateLists == UNION { [1..n -> WriteUpdates] : n \in 0..MaxUpdates }

WriteCalls ==
    { <<"writeComposerJson", <<file, upds, dryRun, writeOk>> >> :
          file \in WriteManifests, upds \in UpdateLists, dryRun \in BOOLEAN,
          writeOk \in BOOLEAN }
    \cup { <<"formatNewVersion", <<a, b>> >> : a \in UtilityStrings, b \in UtilityStrings }

InitWrite ==
    /\ NoFetch
    /\ NoAll
    /\ NoHttp
    /\ NoRun
    /\ \E c \in WriteCalls : callee = c[1] /\ callArgs = c[2]
    /\ callResult = None

\* writer.ts lines 31-68
CallWriteComposerJson ==
    /\ callee = "writeComposerJson"
    /\ callResult = None
    /\ callResult' = Some(writeComposerJson(callArgs[1], callArgs[2], callArgs[3],
                                            callArgs[4]))
    /\ UNCHANGED <<exceptCall, callee, callArgs>>

NextWrite ==
    \/ CallWriteComposerJson
    \/ CallFormatNewVersion

SpecWrite == InitWrite /\ [][NextWrite]_vars

\* a returned call of writeComposerJson, its manifest, its updates and the
\* manifest it left
WriteReturned == callee = "writeComposerJson" /\ callResult # None
WriteFile == callArgs[1]
WriteUpdateList == callArgs[2]
WriteDryRun == callArgs[3]
FileAfter == Get(callResult).file

\* C23: for a constraint that parses as dev (alias, dev- prefix, -dev or
\* .x-dev suffix) formatNewVersion returns the original constraint for every
\* new version, and a write leaves every manifest entry with such a
\* constraint as it was
C23_DevPassthrough ==
    /\ (FormatReturned /\ parseConstraint(FormatOriginal).type = "dev")
           => Get(callResult) = FormatOriginal
    /\ (WriteReturned /\ WriteFile # None)
           => /\ \A k \in 1..Len(Get(WriteFile).require) :
                     parseConstraint(Get(WriteFile).require[k][2]).type = "dev"
                     => Get(FileAfter).require[k] = Get(WriteFile).require[k]
              /\ \A k \in 1..Len(Get(WriteFile).requireDev) :
                     parseConstraint(Get(WriteFile).requireDev[k][2]).type = "dev"
                     => Get(FileAfter).requireDev[k] = Get(WriteFile).requireDev[k]

\* a write with an update for c/d, required as dev-main, was done and
\* changed another entry of the manifest
C23_DevEntryKeptByWrite ==
    /\ WriteReturned
    /\ WriteFile # None
    /\ Get(callResult).wrote
    /\ Get(callResult).returned
    /\ Len(WriteUpdateList) = 2
    /\ WriteUpdateList[1].name = Name_c_d
    /\ Len(Get(WriteFile).require) = 3
    /\ Get(FileAfter).require[2] = <<Name_c_d, Constraint_devMain>>
    /\ Get(FileAfter).require[1] # Get(WriteFile).require[1]


----------------------------------------------------------------------------
(* parseConstraint on its own: each constraint with the kind, the prefix and
   the base version of the first pattern that matches it, in the order inline
   alias, dev- prefix, -dev or .x-dev suffix, caret, tilde, wildcard, hyphen
   range, comparison operator, exact *)

ParseCases ==
    { [text |-> <<>>, type |-> "exact", prefix |-> <<>>,
       baseVersion |-> <<>>],
      [text |-> <<"a", "b", "c">>, type |-> "exact", prefix |-> <<>>,
       baseVersion |-> <<"a", "b", "c">>],
      [text |-> <<"n", "o", "t", "-", "a", "-", "v", "e", "r", "s", "i", "o", "n">>, type |-> "exact", prefix |-> <<>>,
       baseVersion |-> <<"n", "o", "t", "-", "a", "-", "v", "e", "r", "s", "i", "o", "n">>],
      [text |-> <<"1", ".", "0", ".", "0">>, type |-> "exact", prefix |-> <<>>,
       baseVersion |-> <<"1", ".", "0", ".", "0">>],
      [text |-> <<"v", "2", ".", "1", ".", "3">>, type |-> "exact", prefix |-> <<>>,
       baseVersion |-> <<"2", ".", "1", ".", "3">>],
      [text |-> <<"^", "1", ".", "2">>, type |-> "caret", prefix |-> <<"^">>,
       baseVersion |-> <<"1", ".", "2">>],
      [text |-> <<"~", "1", ".", "2">>, type |-> "tilde", prefix |-> <<"~">>,
       baseVersion |-> <<"1", ".", "2">>],
      [text |-> <<"1", ".", "*">>, type |-> "wildcard", prefix |-> <<>>,
       baseVersion |-> <<"1">>],
      [text |-> <<"1", ".", "2", ".", "*">>, type |-> "wildcard", prefix |-> <<>>,
       baseVersion |-> <<"1", ".", "2">>],
      [text |-> <<"d", "e", "v", "-", "m", "a", "i", "n">>, type |-> "dev", prefix |-> <<"d", "e", "v", "-">>,
       baseVersion |-> <<"m", "a", "i", "n">>],
      [text |-> <<"1", ".", "0", ".", "x", "-", "d", "e", "v">>, type |-> "dev", prefix |-> <<>>,
       baseVersion |-> <<"1", ".", "0", ".", "x", "-", "d", "e", "v">>],
      [text |-> <<"1", ".", "0", " ", "-", " ", "2", ".", "0">>, type |-> "hyphen", prefix |-> <<>>,
       baseVersion |-> <<"1", ".", "0">>],
      [text |-> <<">", "=", "1", ".", "0">>, type |-> "range", prefix |-> <<">", "=">>,
       baseVersion |-> <<"1", ".", "0">>],
      [text |-> <<"d", "e", "v", "-", "m", "a", "i", "n", " ", "a", "s", " ", "1", ".", "0", ".", "x", "-", "d", "e", "v">>, type |-> "dev", prefix |-> <<>>,
       baseVersion |-> <<"1", ".", "0", ".", "x", "-", "d", "e", "v">>],
      [text |-> <<"1", ".", "0", ".", "0", "-", "b", "e", "t", "a", "1">>, type |-> "exact", prefix |-> <<>>,
       baseVersion |-> <<"1", ".", "0", ".", "0", "-", "b", "e", "t", "a", "1">>],
      [text |-> <<"^">>, type |-> "caret", prefix |-> <<"^">>,
       baseVersion |-> <<>>],
      [text |-> <<"!", "=">>, type |-> "range", prefix |-> <<"!", "=">>,
       baseVersion |-> <<>>],
      [text |-> <<"*">>, type |-> "wildcard", prefix |-> <<>>,
       baseVersion |-> <<>>],
      [text |-> <<"1", ".", "2", ".", "3", ".", "*">>, type |-> "wildcard", prefix |-> <<>>,
       baseVersion |-> <<"1", ".", "2", ".", "3">>],
      [text |-> <<"^", "1", ".", "0", "-", "d", "e", "v">>, type |-> "dev", prefix |-> <<>>,
       baseVersion |-> <<"^", "1", ".", "0", "-", "d", "e", "v">>],
      [text |-> <<"~", "1", ".", "0", "-", "d", "e", "v">>, type |-> "dev", prefix |-> <<>>,
       baseVersion |-> <<"~", "1", ".", "0", "-", "d", "e", "v">>],
      [text |-> <<"1", ".", "*", "-", "d", "e", "v">>, type |-> "dev", prefix |-> <<>>,
       baseVersion |-> <<"1", ".", "*", "-", "d", "e", "v">>],
      [text |-> <<"^", "1", ".", "*">>, type |-> "caret", prefix |-> <<"^">>,
       baseVersion |-> <<"1", ".", "*">>],
      [text |-> <<"1", ".", "0", ".", "0", "-", "R", "C", "1">>, type |-> "exact", prefix |-> <<>>,
       baseVersion |-> <<"1", ".", "0", ".", "0", "-", "R", "C", "1">>],
      [text |-> <<"1", ".", "*", "@", "b", "e", "t", "a">>, type |-> "wildcard", prefix |-> <<>>,
       baseVersion |-> <<"1">>],
      [text |-> <<"1", ".", "0", "-", "b", "e", "t", "a", " ", "-", " ", "2", ".", "0">>, type |-> "hyphen", prefix |-> <<>>,
       baseVersion |-> <<"1", ".", "0", "-", "b", "e", "t", "a">>],
      [text |-> <<">", "=", "1", ".", "0", "@", "b", "e", "t", "a">>, type |-> "range", prefix |-> <<">", "=">>,
       baseVersion |-> <<"1", ".", "0">>],
      [text |-> <<"1", ".", "0", ".", "0", "@", "d", "e", "v">>, type |-> "exact", prefix |-> <<>>,
       baseVersion |-> <<"1", ".", "0", ".", "0">>],
      [text |-> <<"~", "1", ".", "*">>, type |-> "tilde", prefix |-> <<"~">>,
       baseVersion |-> <<"1", ".", "*">>],
      [text |-> <<"1", ".", "*", " ", "-", " ", "2", ".", "0">>, type |-> "wildcard", prefix |-> <<>>,
       baseVersion |-> <<"1">>],
      [text |-> <<">", "=", "1", ".", "0", " ", "-", " ", "2", ".", "0">>, type |-> "hyphen", prefix |-> <<>>,
       baseVersion |-> <<">", "=", "1", ".", "0">>],
      [text |-> <<">", "=", "1", ".", "*">>, type |-> "wildcard", prefix |-> <<>>,
       baseVersion |-> <<">", "=", "1">>],
      [text |-> <<"d", "e", "v", "-", "1", ".", "0", " ", "a", "s", " ", "2", ".", "0">>, type |-> "dev", prefix |-> <<>>,
       baseVersion |-> <<"2", ".", "0">>],
      [text |-> <<"d", "e", "v", "-", "1", ".", "x", "-", "d", "e", "v">>, type |-> "dev", prefix |-> <<"d", "e", "v", "-">>,
       baseVersion |-> <<"1", ".", "x", "-", "d", "e", "v">>],
      [text |-> <<" ", "^", "1", ".", "0", " ">>, type |-> "caret", prefix |-> <<"^">>,
       baseVersion |-> <<"1", ".", "0">>],
      [text |-> <<"^", "1", ".", "0", " ", "-", " ", "2", ".", "0">>, type |-> "caret", prefix |-> <<"^">>,
       baseVersion |-> <<"1", ".", "0", " ", "-", " ", "2", ".", "0">>],
      [text |-> <<"~", "v", "1", ".", "2", "@", "s", "t", "a", "b", "l", "e">>, type |-> "tilde", prefix |-> <<"~">>,
       baseVersion |-> <<"1", ".", "2">>] }

ParseReturned == callee = "parseConstraint" /\ callResult # None

\* C24: parseConstraint gives every constraint the kind, prefix and base
\* version of the first pattern, in the fixed order, that matches it: a
\* caret, tilde or wildcard constraint ending in -dev is dev, a caret
\* constraint containing * is caret
C24_FirstPatternWins ==
    ParseReturned =>
        \E c \in ParseCases :
            /\ c.text = callArgs[1]
            /\ Get(callResult).type = c.type
            /\ Get(callResult).prefix = c.prefix
            /\ Get(callResult).baseVersion = c.baseVersion

\* a wildcard constraint ending in -dev was parsed as dev
C24_DevTaggedWildcard ==
    /\ ParseReturned
    /\ callArgs[1] = <<"1", ".", "*", "-", "d", "e", "v">>
    /\ Get(callResult).type = "dev"

\* the markers of a development constraint
DevMarkers ==
    {Str_dev, Str_alpha, Str_beta, Str_rc, Str_atdev, Str_atalpha, Str_atbeta, Str_atrc}

\* C25: whatever kind parseConstraint gives a constraint, wildcard and hyphen
\* range included, isDev is true when the constraint contains one of -dev,
\* alpha, beta, -rc, @dev, @alpha, @beta, @rc in any letter case
C25_DevFlagOfEveryKind ==
    (ParseReturned /\ \E marker \in DevMarkers : includes(toLowerCase(callArgs[1]), marker))
        => Get(callResult).isDev


----------------------------------------------------------------------------
(* run: the order of the write and of composer update *)

\* C26: composer update is spawned only with install set and dryRun off,
\* only after writeComposerJson has written composer.json and returned true,
\* and never without a selected update
C26_InstallAfterWrite ==
    [][installs' > installs =>
         /\ options.install
         /\ ~options.dryRun
         /\ Len(selectedUpdates) > 0
         /\ writes > 0
         /\ success = Some(TRUE)]_vars

\* the part of C26 that does not depend on the value writeComposerJson
\* returned
InstallOnlyWithSelection ==
    [][installs' > installs =>
         /\ options.install
         /\ ~options.dryRun
         /\ Len(selectedUpdates) > 0
         /\ success # None]_vars


----------------------------------------------------------------------------
(* fetchPackage: the PHP requirement of the result *)

\* C27: the phpRequirement of a result returned past the fallback is the PHP
\* requirement the finally selected version declares, and absent when it
\* declares none, also when the major gate replaced the selection
C27_RequirementOfFinalSelection ==
    (Returned /\ EligibleIndexes # {})
        => Get(result).phpRequirement = Get(selectedVersion).php

\* the part of C27 on final selections that declare a requirement
DeclaredRequirementReported ==
    (Returned /\ EligibleIndexes # {} /\ IsSome(Get(selectedVersion).php))
        => Get(result).phpRequirement = Get(selectedVersion).php


----------------------------------------------------------------------------
(* writeComposerJson: what a write changes in the manifest *)

\* the constraint of the package name after the updates of the list, each
\* update of that package reformatting the constraint the one before left
RECURSIVE Rewritten(_, _, _)
Rewritten(constraint, name, upds) ==
    IF Len(upds) = 0 THEN constraint
    ELSE Rewritten(IF Head(upds).name = name
                   THEN formatNewVersion(constraint, Head(upds).latestVersion)
                   ELSE constraint,
                   name, Tail(upds))

\* the dependency map after holds the names of the map before, in the same
\* order, each with its constraint rewritten for the updates of its package
MapRewritten(before, after, upds) ==
    /\ Len(after) = Len(before)
    /\ \A k \in 1..Len(before) :
           /\ after[k][1] = before[k][1]
           /\ after[k][2] = Rewritten(before[k][2], before[k][1], upds)
           /\ (\A n \in 1..Len(upds) : upds[n].name # before[k][1]) => after[k] = before[k]

\* C28: a write of a readable manifest that is not a dry run leaves, under
\* require and under require-dev, the same names, each updated package with
\* formatNewVersion(its constraint in the manifest, latestVersion) and every
\* other entry and key as it was; no package is added to either map; when
\* the manifest cannot be read the call returns false and writes nothing
C28_WriteRewritesListedEntries ==
    WriteReturned =>
        /\ WriteFile = None
               => /\ ~Get(callResult).returned
                  /\ ~Get(callResult).wrote
                  /\ FileAfter = None
        /\ (WriteFile # None /\ ~WriteDryRun)
               => /\ Get(callResult).wrote
                  /\ Get(callResult).returned = callArgs[4]
        /\ (WriteFile # None /\ ~WriteDryRun /\ Get(callResult).returned)
               => /\ DOMAIN Get(FileAfter) = DOMAIN Get(WriteFile)
                  /\ Get(FileAfter).name = Get(WriteFile).name
                  /\ MapRewritten(Get(WriteFile).require, Get(FileAfter).require,
                                  WriteUpdateList)
                  /\ MapRewritten(Get(WriteFile).requireDev, Get(FileAfter).requireDev,
                                  WriteUpdateList)

\* a write with updates for a/b, held by both maps, and for x/y, held by
\* neither, rewrote both entries of a/b and added nothing
C28_BothMapsRewritten ==
    /\ WriteReturned
    /\ WriteFile # None
    /\ Get(callResult).returned
    /\ Get(callResult).wrote
    /\ WriteUpdateList = << [name |-> Name_a_b, latestVersion |-> <<"2", ".", "1", ".", "3">>],
                            [name |-> Name_x_y, latestVersion |-> <<"2", ".", "1", ".", "3">>] >>
    /\ Len(Get(WriteFile).require) = 3
    /\ Len(Get(WriteFile).requireDev) = 2
    /\ Get(WriteFile).require[1] = <<Name_a_b, <<"^", "1", ".", "0">> >>
    /\ Get(WriteFile).requireDev[1] = <<Name_a_b, <<"~", "1", ".", "0">> >>
    /\ Get(FileAfter).require[1] = <<Name_a_b, <<"^", "2", ".", "1", ".", "3">> >>
    /\ Get(FileAfter).requireDev[1] = <<Name_a_b, <<"~", "2", ".", "1", ".", "3">> >>
    /\ Len(Get(FileAfter).require) = Len(Get(WriteFile).require)


----------------------------------------------------------------------------
(* fetchPackage: the cache entries of different packages, and noCache *)

\* C29: the cache key of the package looked up is the key of no other
\* package, and the entry a cache-enabled fetch reads for it, whose version
\* list a 304 hands to selection, holds a response for that package
C29_CacheIsolation ==
    /\ packageName # <<>>
           => \A other \in CachePackages \ {packageName} :
                  cacheKey(other) # cacheKey(packageName)
    /\ IsSome(cachedEntry) => DOMAIN Get(cachedEntry).value.packages = {packageName}
    /\ (pc = "fetched" /\ Get(response).kind = "response" /\ Get(response).status = 304)
           => \E written \in ServerLists : versions = written

\* the part of C29 on a package whose key no other package shares
IsolatedWithoutCollision ==
    (IsSome(cachedEntry) /\ packageName = <<"a", "/", "b">>)
        => DOMAIN Get(cachedEntry).value.packages = {packageName}

\* C30: a call with noCache set reads no cache entry, sends no
\* If-Modified-Since header and, whatever the response is, leaves every
\* entry of the cache as it was before the call
C30_CacheBypass ==
    [][noCache' =>
         /\ cachedEntry' = None
         /\ headers' = None
         /\ cache' = cache]_vars

\* a call with noCache set has received a 200 with a Last-Modified header
\* and a newer version list than the one the cache holds for the package,
\* and the entry is the one written earlier, with its own Last-Modified
C30_NewerResponseNotStored ==
    /\ noCache
    /\ pc = "fetched"
    /\ response # None
    /\ Get(response).kind = "response"
    /\ Get(response).status = 200
    /\ NonEmpty(Get(response).lastModified)
    /\ versions = <<Release_2_0_0, Release_1_5_0>>
    /\ cacheKey(packageName) \in DOMAIN cache
    /\ cache[cacheKey(packageName)].value
           = PackagistResponse(packageName, <<Release_1_5_0>>)
    /\ NonEmpty(cache[cacheKey(packageName)].lastModified)
    /\ cache[cacheKey(packageName)].timestamp = 0

====
